---------------------------- MODULE Spec2Model ----------------------------
(***************************************************************************)
(* State-machine model of SynthEngine (native/src/synth_engine.cpp,        *)
(* native/src/synth_engine.h): lifecycle, parameter router, MIDI event     *)
(* processor, MIDI learn, automation recorder and preset import.           *)
(*                                                                         *)
(* float values are modelled as exact reduced fractions <<num, den>>.      *)
(***************************************************************************)
EXTENDS Integers, Naturals, Sequences, FiniteSets, TLC

VARIABLES
    initialized,                 \* std::atomic<bool> initialized
    sampleRate, bufferSize,      \* int
    masterMute,                  \* bool
    masterVolume,                \* SmoothedParameterF: [currentValue, targetValue, alpha]
    audioPlatform,               \* "null" | "created" | "running" | "stopped"
    oscillators,                 \* std::vector<unique_ptr<Oscillator>>: sequence of records
    filter, envelope, delay, reverb, granularSynth,   \* unique_ptr: <<>> is nullptr, <<r>> a live module
    wavetableManager,            \* unique_ptr, TRUE when allocated
    fftPlan,                     \* kiss_fftr_cfg, TRUE when allocated
    analysis,                    \* the five std::atomic<double> readings, as a record
    activeNotes,                 \* unordered_map<int,float>
    parameterCache,              \* unordered_map<int,float>
    midiLearnActive, parameterIdToLearn,
    ccToParameterMap, lastCcValue,
    isRecordingAutomation, isPlayingAutomation,
    automationRecordStartTime, automationPlaybackStartTime,
    recordedAutomation,          \* unordered_map<int, vector<AutomationEvent>>
    automationPlaybackIndices,   \* unordered_map<int, size_t>
    automationParameterChangeCallback,   \* TRUE when a callback is registered
    uiControlMidiCallback_,      \* TRUE when a callback is registered
    currentUiTargetPanelId_,
    currentXYPadXParameterId, currentXYPadYParameterId,
    clock,                       \* high_resolution_clock::now(), in ticks
    fault,                       \* "none" | "stack_overflow" (process no longer runs)
    budget,                      \* calls the exploration may still make
    last,                        \* the last call: what it was, what it returned, what it invoked
    pc,                          \* per thread: where it stands inside an operation, and its locals
    mutexOwner,                  \* per std::mutex: the thread that holds it, or "none"
    exported                     \* the preset document the host keeps from the last export

lifecycleVars == <<initialized, sampleRate, bufferSize, audioPlatform, wavetableManager, fftPlan,
                   analysis>>
moduleVars    == <<masterMute, masterVolume, oscillators, filter, envelope, delay, reverb, granularSynth>>
noteVars      == <<activeNotes>>
cacheVars     == <<parameterCache>>
midiVars      == <<midiLearnActive, parameterIdToLearn, ccToParameterMap, lastCcValue>>
autoVars      == <<isRecordingAutomation, isPlayingAutomation, automationRecordStartTime,
                   automationPlaybackStartTime, recordedAutomation, automationPlaybackIndices>>
callbackVars  == <<automationParameterChangeCallback, uiControlMidiCallback_>>
uiVars        == <<currentUiTargetPanelId_>>
xyVars        == <<currentXYPadXParameterId, currentXYPadYParameterId>>
threadVars    == <<pc, mutexOwner>>

vars == <<lifecycleVars, moduleVars, noteVars, cacheVars, midiVars, autoVars,
          callbackVars, uiVars, xyVars, clock, fault, budget, last, threadVars, exported>>

-----------------------------------------------------------------------------
(* Bounds of the model *)

\* calls explored from construction: all operations, few inputs each
MaxSteps == 4
\* calls explored from construction by the specifications of one component
MaxRouterSteps == 3
MaxMidiSteps == 4
MaxNoteSteps == 5
\* ticks the clock may advance
MaxClock == 2
\* tables the (external) wavetable manager reports through getTableNames()
NumTables == 2
\* calls in a run of the automation specification
MaxAutoSteps == 6
\* calls begun in a run of the control-thread specification
MaxRaceSteps == 5
\* calls in a run of the preset specification
MaxPresetSteps == 8
\* calls in a run of the import specification
MaxImportSteps == 5
\* calls in a run of the lifecycle specification
MaxLifeSteps == 5
\* calls begun in a run of the shutdown specification
MaxShutdownSteps == 6
\* calls made on the smoother in a run of the smoother specification
MaxSmoothSteps == 5
\* note calls begun in a run of the concurrent notes specification
MaxNoteRaceSteps == 5
\* learn calls and Control Changes begun in a run of the concurrent learn specification
MaxLearnSteps == 5
\* calls begun in a run of the locks specification
MaxLockSteps == 6

-----------------------------------------------------------------------------
(* float arithmetic on exact fractions *)

RECURSIVE GCD(_, _)
GCD(a, b) == IF b = 0 THEN a ELSE GCD(b, a % b)

Abs(n) == IF n < 0 THEN -n ELSE n

\* the fraction n/d (d > 0) in lowest terms
R(n, d) == LET g == GCD(Abs(n), d) IN <<n \div g, d \div g>>

Num(v) == v[1]
Den(v) == v[2]

\* a value the engine never set (the module's own default)
Unset == <<0, 0>>

\* the sum over the least common denominator, which keeps the numbers within 32 bits
RAdd(a, b) ==
    LET g == GCD(Den(a), Den(b))
    IN  R(Num(a) * (Den(b) \div g) + Num(b) * (Den(a) \div g), (Den(a) \div g) * Den(b))
RMul(a, b) == R(Num(a) * Num(b), Den(a) * Den(b))
\* a >= b: the integer parts first, the fractional parts over the common denominator
RGeq(a, b) ==
    IF Den(a) = 0 \/ Den(b) = 0 THEN Num(a) * Den(b) >= Num(b) * Den(a)
    ELSE LET g == GCD(Den(a), Den(b))
         IN  IF Num(a) \div Den(a) # Num(b) \div Den(b)
             THEN Num(a) \div Den(a) > Num(b) \div Den(b)
             ELSE (Num(a) % Den(a)) * (Den(b) \div g) >= (Num(b) % Den(b)) * (Den(a) \div g)

\* the significand of a float: 24 bits
FloatPrecision == 16777216

RECURSIVE IsPowerOfTwo(_)
IsPowerOfTwo(d) == d = 1 \/ (d > 1 /\ d % 2 = 0 /\ IsPowerOfTwo(d \div 2))

\* the weight of the lowest bit kept when n is cut to 24 significant bits
RECURSIVE Ulp(_)
Ulp(n) == IF n < FloatPrecision THEN 1 ELSE 2 * Ulp(n \div 2)

\* the result of a float operation: the exact result rounded to 24 significant
\* bits, ties to the even significand. A value whose denominator is no power of
\* two stands for the float nearest to it and is carried as it is.
Float(x) ==
    LET n    == Abs(Num(x))
        p    == Ulp(n)
        m0   == n \div p
        rest == n % p
        m    == IF 2 * rest > p \/ (2 * rest = p /\ m0 % 2 = 1) THEN m0 + 1 ELSE m0
    IN  IF p = 1 \/ ~IsPowerOfTwo(Den(x)) THEN x
        ELSE R((IF Num(x) < 0 THEN -1 ELSE 1) * m * p, Den(x))

\* static_cast<int>(float): truncation toward zero
ToInt(v) == IF Num(v) >= 0 THEN Num(v) \div Den(v) ELSE -((-Num(v)) \div Den(v))

\* static_cast<float>(int)
ToFloat(n) == R(n, 1)

-----------------------------------------------------------------------------
(* SynthParameterId *)

masterVolumeId == 0
masterMuteId == 1
pitchBend == 2
channelAftertouch == 3
filterCutoff == 10
filterResonance == 11
filterType == 12
attackTime == 20
decayTime == 21
sustainLevel == 22
releaseTime == 23
reverbMix == 30
delayTime == 31
delayFeedback == 32
granularActive == 40
granularGrainRate == 41
granularGrainDuration == 42
granularPosition == 43
granularPitch == 44
granularAmplitude == 45
granularPositionVar == 46
granularPitchVar == 47
granularDurationVar == 48
granularPan == 49
granularPanVar == 50
granularWindowType == 51
oscillatorType == 100
\* the two XY-pad passthrough identifiers (their declaration is not part of the sources)
xyPadXValue == 2000
xyPadYValue == 2001

\* enumerators of the external module classes; only their identity matters
WaveformSine == 0
WaveformSquare == 1
FilterLowPass == 0

\* the fields of an oscillator slot, by paramOffset
OscField(off) == CASE off = 0 -> "type"
                   [] off = 1 -> "frequency"
                   [] off = 2 -> "detune"
                   [] off = 3 -> "volume"
                   [] off = 4 -> "pan"
                   [] off = 5 -> "wavetable"
                   [] off = 6 -> "position"

\* the setter a granular parameter identifier is routed to
GranularField(id) == CASE id = granularGrainRate -> "grainRate"
                       [] id = granularGrainDuration -> "grainDuration"
                       [] id = granularPosition -> "position"
                       [] id = granularPitch -> "pitch"
                       [] id = granularAmplitude -> "amplitude"
                       [] id = granularPositionVar -> "positionVariation"
                       [] id = granularPitchVar -> "pitchVariation"
                       [] id = granularDurationVar -> "grainDurationVariation"
                       [] id = granularPan -> "pan"
                       [] id = granularPanVar -> "panVariation"
                       [] id = granularWindowType -> "windowType"

GranularIds == {granularGrainRate, granularGrainDuration, granularPosition, granularPitch,
                granularAmplitude, granularPositionVar, granularPitchVar, granularDurationVar,
                granularPan, granularPanVar, granularWindowType}

-----------------------------------------------------------------------------
(* maps: a std::unordered_map is a function on the set of its keys *)

EmptyMap == [k \in {} |-> 0]
HasKey(m, k) == k \in DOMAIN m
\* m[k] = v
Put(m, k, v) == [x \in (DOMAIN m) \cup {k} |-> IF x = k THEN v ELSE m[x]]
\* m.erase(k)
Erase(m, k) == [x \in (DOMAIN m) \ {k} |-> m[x]]
\* the orders in which an unordered_map with key set S may be iterated
Orders(S) == {o \in [1..Cardinality(S) -> S] : \A i, j \in 1..Cardinality(S) : o[i] = o[j] => i = j}

-----------------------------------------------------------------------------
(* modules, as initializeDefaultModules() and initialize() leave them *)

NULL == <<>>
Live(m) == m # NULL

DefaultOscillator(type, volume, detune) ==
    [type |-> type, frequency |-> Unset, detune |-> detune, volume |-> volume,
     pan |-> Unset, wavetable |-> -1, position |-> Unset]

DefaultOscillators ==
    << DefaultOscillator(WaveformSine, R(1, 2), Unset),
       DefaultOscillator(WaveformSquare, R(3, 10), R(5, 1)) >>

DefaultFilter == << [cutoff |-> R(1000, 1), resonance |-> R(1, 2), type |-> FilterLowPass] >>

DefaultEnvelope ==
    << [attack |-> R(1, 100), decay |-> R(1, 10), sustain |-> R(7, 10), release |-> R(1, 2),
        stage |-> "idle", velocity |-> Unset] >>

DefaultDelay == << [time |-> R(1, 2), feedback |-> R(3, 10), mix |-> R(1, 5)] >>

DefaultReverb == << [roomSize |-> R(1, 2), damping |-> R(1, 2), mix |-> R(1, 5)] >>

DefaultGranular ==
    << [grainRate |-> Unset, grainDuration |-> Unset, position |-> Unset, pitch |-> Unset,
        amplitude |-> Unset, positionVariation |-> Unset, pitchVariation |-> Unset,
        grainDurationVariation |-> Unset, pan |-> Unset, panVariation |-> Unset,
        windowType |-> -1, buffer |-> <<>>] >>

\* 440 * 2^((note - 69) / 12): kept as the exponent's numerator, the semitone distance
\* from A4, tagged by denominator -1 so that it is no fraction set through setParameter
noteToFrequency(note) == <<note - 69, -1>>

-----------------------------------------------------------------------------
(* the state setParameter reads and writes *)

Sound ==
    [recordedAutomation |-> recordedAutomation, parameterCache |-> parameterCache,
     masterVolume |-> masterVolume, masterMute |-> masterMute,
     oscillators |-> oscillators, filter |-> filter, envelope |-> envelope,
     delay |-> delay, reverb |-> reverb, granularSynth |-> granularSynth]

\* a plausible slip: the event put in front of the track
PushEventFront(tracks, parameterId, value, timestamp) ==
    Put(tracks, parameterId,
        <<[parameterId |-> parameterId, value |-> value, timestamp |-> timestamp]>>
        \o (IF HasKey(tracks, parameterId) THEN tracks[parameterId] ELSE <<>>))

\* recordedAutomation[parameterId].push_back({parameterId, value, timestamp})
PushEvent(tracks, parameterId, value, timestamp) ==
    Put(tracks, parameterId,
        Append(IF HasKey(tracks, parameterId) THEN tracks[parameterId] ELSE <<>>,
               [parameterId |-> parameterId, value |-> value, timestamp |-> timestamp]))

\* the result of a module setter behind a null check
SetIfLive(s, module, field, x) ==
    IF Live(s[module])
    THEN [s |-> [s EXCEPT ![module] = << [@[1] EXCEPT ![field] = x] >>], ret |-> TRUE]
    ELSE [s |-> s, ret |-> FALSE]

\* a plausible slip of the bounds check: the slot one past the end passes
SlotInRangeInclusive(s, oscIndex) == oscIndex >= 0 /\ oscIndex <= Len(s.oscillators)

\* oscIndex >= 0 && oscIndex < oscillators.size()
SlotInRange(s, oscIndex) == oscIndex >= 0 /\ oscIndex < Len(s.oscillators)

\* the default: branch of the switch, the oscillator range
DispatchOscillator(s, parameterId, value) ==
    LET oscIndex    == (parameterId - oscillatorType) \div 10
        paramOffset == (parameterId - oscillatorType) % 10
        set(field, x) == [s |-> [s EXCEPT !.oscillators[oscIndex + 1][field] = x], ret |-> TRUE]
    IN  IF parameterId >= oscillatorType /\ parameterId < oscillatorType + 1000
           /\ SlotInRange(s, oscIndex)
        THEN CASE paramOffset = 0 -> set("type", ToInt(value))
               [] paramOffset \in 1..4 -> set(OscField(paramOffset), value)
               [] paramOffset = 5 ->
                    IF ToInt(value) >= 0 /\ ToInt(value) < NumTables
                    THEN set("wavetable", ToInt(value))
                    ELSE [s |-> s, ret |-> TRUE]
               [] paramOffset = 6 -> set("position", value)
               [] OTHER -> [s |-> s, ret |-> FALSE]
        ELSE [s |-> s, ret |-> FALSE]

\* a plausible slip: a new target also jumps the current value
setTargetAndCurrent(sp, target) == [sp EXCEPT !.targetValue = target, !.currentValue = target]

\* SmoothedParameterF::setTarget
setTarget(sp, target) == [sp EXCEPT !.targetValue = target]

\* a plausible slip: any non-zero value mutes
MuteWhenNonZero(value) == Num(value) # 0

\* masterMute = (value >= 0.5f)
MuteFromValue(value) == RGeq(value, R(1, 2))

\* switch (parameterId) of setParameter
Dispatch(s, parameterId, value) ==
    CASE parameterId = masterVolumeId ->
            [s |-> [s EXCEPT !.masterVolume = setTarget(@, value)], ret |-> TRUE]
      [] parameterId = masterMuteId ->
            [s |-> [s EXCEPT !.masterMute = MuteFromValue(value)], ret |-> TRUE]
      [] parameterId \in {pitchBend, channelAftertouch} -> [s |-> s, ret |-> TRUE]
      [] parameterId = filterCutoff -> SetIfLive(s, "filter", "cutoff", value)
      [] parameterId = filterResonance -> SetIfLive(s, "filter", "resonance", value)
      [] parameterId = filterType -> SetIfLive(s, "filter", "type", ToInt(value))
      [] parameterId = attackTime -> SetIfLive(s, "envelope", "attack", value)
      [] parameterId = decayTime -> SetIfLive(s, "envelope", "decay", value)
      [] parameterId = sustainLevel -> SetIfLive(s, "envelope", "sustain", value)
      [] parameterId = releaseTime -> SetIfLive(s, "envelope", "release", value)
      [] parameterId = reverbMix -> SetIfLive(s, "reverb", "mix", value)
      [] parameterId = delayTime -> SetIfLive(s, "delay", "time", value)
      [] parameterId = delayFeedback -> SetIfLive(s, "delay", "feedback", value)
      [] parameterId = granularWindowType ->
            SetIfLive(s, "granularSynth", "windowType", ToInt(value))
      [] parameterId \in GranularIds \ {granularWindowType} ->
            SetIfLive(s, "granularSynth", GranularField(parameterId), value)
      [] OTHER -> DispatchOscillator(s, parameterId, value)

\* a plausible slip: the event recorded whatever the origin of the call
RecordEventAlways(s, parameterId, value, fromAutomation) ==
    IF isRecordingAutomation
    THEN [s EXCEPT !.recordedAutomation =
              PushEvent(@, parameterId, value, clock - automationRecordStartTime)]
    ELSE s

\* the automation event setParameter records before anything else
RecordEvent(s, parameterId, value, fromAutomation) ==
    IF isRecordingAutomation /\ ~fromAutomation
    THEN [s EXCEPT !.recordedAutomation =
              PushEvent(@, parameterId, value, clock - automationRecordStartTime)]
    ELSE s

\* a plausible slip: the cache written only for an identifier the switch handles
WriteCacheIfHandled(s, parameterId, value) ==
    IF Dispatch(s, parameterId, value).ret
    THEN [s EXCEPT !.parameterCache = Put(@, parameterId, value)]
    ELSE s

\* parameterCache[parameterId] = value
WriteCache(s, parameterId, value) ==
    [s EXCEPT !.parameterCache = Put(@, parameterId, value)]

\* setParameter on an initialized engine. The XY-pad passthrough calls setParameter again
\* for the assigned identifier; `pads` are the passthrough identifiers already on the call
\* stack: coming back to one of them, the recursion never ends and the stack overflows.
RECURSIVE setParameterFrom(_, _, _, _, _)
setParameterFrom(s, parameterId, value, fromAutomation, pads) ==
    LET s1 == WriteCache(RecordEvent(s, parameterId, value, fromAutomation), parameterId, value)
        target == IF parameterId = xyPadXValue THEN currentXYPadXParameterId
                  ELSE currentXYPadYParameterId
    IN  IF parameterId \in {xyPadXValue, xyPadYValue}
        THEN IF parameterId \in pads
             THEN [s |-> s1, ret |-> FALSE, overflow |-> TRUE]
             ELSE setParameterFrom(s1, target, value, fromAutomation, pads \cup {parameterId})
        ELSE LET d == Dispatch(s1, parameterId, value)
             IN  [s |-> d.s, ret |-> d.ret, overflow |-> FALSE]

setParameter(s, parameterId, value, fromAutomation) ==
    IF ~initialized
    THEN [s |-> s, ret |-> FALSE, overflow |-> FALSE]
    ELSE setParameterFrom(s, parameterId, value, fromAutomation, {})

\* a plausible slip: getParameter without its initialized check
getParameterUnguarded(parameterId) ==
    IF HasKey(parameterCache, parameterId) THEN parameterCache[parameterId]
    ELSE CASE parameterId = masterVolumeId -> masterVolume.targetValue
           [] parameterId = masterMuteId -> IF masterMute THEN R(1, 1) ELSE R(0, 1)
           [] parameterId = filterCutoff -> IF Live(filter) THEN filter[1].cutoff ELSE R(1000, 1)
           [] parameterId = filterResonance -> IF Live(filter) THEN filter[1].resonance ELSE R(1, 2)
           [] OTHER -> R(0, 1)

\* getParameter: the cache first, then the live module's target, then 0
getParameter(parameterId) ==
    IF ~initialized THEN R(0, 1)
    ELSE IF HasKey(parameterCache, parameterId) THEN parameterCache[parameterId]
    ELSE CASE parameterId = masterVolumeId -> masterVolume.targetValue
           [] parameterId = masterMuteId -> IF masterMute THEN R(1, 1) ELSE R(0, 1)
           [] parameterId = filterCutoff -> IF Live(filter) THEN filter[1].cutoff ELSE R(1000, 1)
           [] parameterId = filterResonance -> IF Live(filter) THEN filter[1].resonance ELSE R(1, 2)
           [] OTHER -> R(0, 1)


-----------------------------------------------------------------------------
(* the record of the last call *)

NoCall ==
    [op |-> "none", a1 |-> 0, a2 |-> 0, a3 |-> 0, v |-> Unset, flag |-> FALSE,
     ret |-> TRUE, val |-> Unset, env |-> <<>>, ui |-> <<>>,
     applied |-> <<>>, notified |-> <<>>, out |-> "none", doc |-> <<>>,
     frames |-> <<>>, after |-> <<>>]

\* a call of op with integer arguments a1..a3 that returned ret
Called(op, a1, a2, a3, ret) == [NoCall EXCEPT !.op = op, !.a1 = a1, !.a2 = a2, !.a3 = a3, !.ret = ret]

\* every step is made on a running process, and counted
Turn ==
    /\ fault = "none"
    /\ budget > 0
    /\ budget' = budget - 1

\* a call that runs from entry to return with no other thread in between: no thread is
\* inside an operation, no mutex is held before or after
Step ==
    /\ Turn
    /\ \A t \in DOMAIN pc : pc[t].at = "idle"
    /\ UNCHANGED <<threadVars, exported>>

StoreSound(s) ==
    /\ recordedAutomation' = s.recordedAutomation
    /\ parameterCache' = s.parameterCache
    /\ masterVolume' = s.masterVolume
    /\ masterMute' = s.masterMute
    /\ oscillators' = s.oscillators
    /\ filter' = s.filter
    /\ envelope' = s.envelope
    /\ delay' = s.delay
    /\ reverb' = s.reverb
    /\ granularSynth' = s.granularSynth

\* what a setParameter call leaves alone
SoundFrame ==
    UNCHANGED <<lifecycleVars, noteVars, midiVars, callbackVars, uiVars, xyVars, clock,
                isRecordingAutomation, isPlayingAutomation, automationRecordStartTime,
                automationPlaybackStartTime, automationPlaybackIndices>>

-----------------------------------------------------------------------------
(* construction *)

\* the threads besides the audio callback, and the four mutexes of the engine
Threads == {"control1", "control2"}
Mutexes == {"notesMutex", "parameterMutex", "midiMappingMutex", "automationMutex"}
\* the thread on which the audio platform runs the callback
AudioThread == "audio"

\* a thread that is in no operation
Idle == [at |-> "idle", parameterId |-> 0, value |-> Unset, pads |-> {}]

\* SmoothedParameterF::setSmoothingTime: the coefficient alpha. The exponential
\* 1 - exp(-1 / ((timeMs / 1000) * sr)) lies strictly between 0 and 1; it is kept as 1/2.
setSmoothingTime(timeMs, sr) ==
    IF timeMs <= 0 \/ sr <= 0 THEN R(1, 1)
    ELSE IF timeMs < 1 THEN R(1, 1)
    ELSE R(1, 2)

\* bassLevel{0.0}, midLevel{0.0}, highLevel{0.0}, amplitudeLevel{0.0},
\* dominantFrequency{0.0}
ZeroReadings ==
    [bassLevel |-> R(0, 1), midLevel |-> R(0, 1), highLevel |-> R(0, 1),
     amplitudeLevel |-> R(0, 1), dominantFrequency |-> R(0, 1)]

ConstructedEngine ==
    /\ initialized = FALSE
    /\ sampleRate = 44100
    /\ bufferSize = 512
    /\ masterMute = FALSE
    /\ masterVolume = [currentValue |-> R(3, 4), targetValue |-> R(3, 4),
                       alpha |-> setSmoothingTime(20, 44100)]
    /\ audioPlatform = "null"
    /\ oscillators = <<>>
    /\ filter = NULL /\ envelope = NULL /\ delay = NULL /\ reverb = NULL
    /\ granularSynth = NULL
    /\ wavetableManager = FALSE
    /\ fftPlan = FALSE
    /\ analysis = ZeroReadings
    /\ activeNotes = EmptyMap
    /\ parameterCache = EmptyMap
    /\ midiLearnActive = FALSE
    /\ parameterIdToLearn = -1
    /\ ccToParameterMap = EmptyMap
    /\ lastCcValue = EmptyMap
    /\ isRecordingAutomation = FALSE
    /\ isPlayingAutomation = FALSE
    /\ automationRecordStartTime = 0
    /\ automationPlaybackStartTime = 0
    /\ recordedAutomation = EmptyMap
    /\ automationPlaybackIndices = EmptyMap
    /\ automationParameterChangeCallback = FALSE
    /\ uiControlMidiCallback_ = FALSE
    /\ currentUiTargetPanelId_ = 0
    /\ currentXYPadXParameterId = filterCutoff
    /\ currentXYPadYParameterId = filterResonance

\* the state after construction, before any call
Constructed ==
    /\ ConstructedEngine
    /\ clock = 0
    /\ fault = "none"
    /\ last = NoCall
    /\ pc = [t \in Threads \cup {AudioThread} |-> Idle]
    /\ mutexOwner = [m \in Mutexes |-> "none"]

-----------------------------------------------------------------------------
(* lifecycle *)

\* initialize(sr, bs, initialVolume); outcome is what the FFT allocation and the audio
\* platform do: "ok", "fft" (kiss_fftr_alloc fails, initializeAudioAnalysis throws),
\* "platform_init" (audioPlatform->initialize fails), "platform_start" (start fails)
\* a plausible slip: the initial volume set as a target only, so that the output ramps in
setTargetOnly(sp, value) == [sp EXCEPT !.targetValue = value]

\* SmoothedParameterF::setCurrentAndTarget
setCurrentAndTarget(sp, value) == [sp EXCEPT !.currentValue = value, !.targetValue = value]

Initialize(sr, bs, initialVolume, outcome) ==
    /\ Step
    /\ IF initialized
       THEN /\ UNCHANGED <<lifecycleVars, moduleVars>>
            /\ last' = Called("initialize", sr, bs, 0, TRUE)
       ELSE /\ sampleRate' = sr
            /\ bufferSize' = bs
            /\ masterVolume' = [setCurrentAndTarget(masterVolume, initialVolume)
                                   EXCEPT !.alpha = setSmoothingTime(20, sr)]
            /\ UNCHANGED <<masterMute, analysis>>
            /\ IF outcome = "fft"
               THEN /\ fftPlan' = FALSE
                    /\ UNCHANGED <<wavetableManager, granularSynth, oscillators, filter,
                                   envelope, delay, reverb, audioPlatform, initialized>>
               ELSE /\ fftPlan' = TRUE
                    /\ wavetableManager' = TRUE
                    /\ granularSynth' = DefaultGranular
                    /\ oscillators' = DefaultOscillators
                    /\ filter' = DefaultFilter
                    /\ envelope' = DefaultEnvelope
                    /\ delay' = DefaultDelay
                    /\ reverb' = DefaultReverb
                    /\ audioPlatform' = CASE outcome = "platform_init" -> "created"
                                          [] outcome = "platform_start" -> "created"
                                          [] OTHER -> "running"
                    /\ initialized' = (outcome = "ok")
            /\ last' = [Called("initialize", sr, bs, 0, outcome = "ok") EXCEPT !.v = initialVolume]
    /\ UNCHANGED <<noteVars, cacheVars, midiVars, autoVars, callbackVars, uiVars, xyVars,
                   clock, fault>>

shutdown ==
    /\ Step
    /\ IF ~initialized
       THEN UNCHANGED <<lifecycleVars, moduleVars, noteVars, cacheVars>>
       ELSE /\ audioPlatform' = "null"
            /\ oscillators' = <<>>
            /\ filter' = NULL /\ envelope' = NULL /\ delay' = NULL /\ reverb' = NULL
            /\ wavetableManager' = FALSE
            /\ granularSynth' = NULL
            /\ activeNotes' = EmptyMap
            /\ parameterCache' = EmptyMap
            /\ fftPlan' = FALSE
            /\ initialized' = FALSE
            /\ UNCHANGED <<sampleRate, bufferSize, masterMute, masterVolume, analysis>>
    /\ last' = Called("shutdown", 0, 0, 0, TRUE)
    /\ UNCHANGED <<midiVars, autoVars, callbackVars, uiVars, xyVars, clock, fault>>

-----------------------------------------------------------------------------
(* parameter router *)

SetParameter(parameterId, value, fromAutomation) ==
    /\ Step
    /\ LET r == setParameter(Sound, parameterId, value, fromAutomation)
       IN  /\ StoreSound(r.s)
           /\ fault' = IF r.overflow THEN "stack_overflow" ELSE "none"
           /\ last' = [Called("setParameter", parameterId, 0, 0, r.ret)
                          EXCEPT !.v = value, !.flag = fromAutomation]
    /\ SoundFrame

GetParameter(parameterId) ==
    /\ Step
    /\ last' = [Called("getParameter", parameterId, 0, 0, TRUE) EXCEPT !.val = getParameter(parameterId)]
    /\ UNCHANGED <<lifecycleVars, moduleVars, noteVars, cacheVars, midiVars, autoVars,
                   callbackVars, uiVars, xyVars, clock, fault>>

\* the XY-pad axis assignment (set_xy_pad_x_parameter_ffi / set_xy_pad_y_parameter_ffi)
SetXYPadXParameter(parameterId) ==
    /\ Step
    /\ currentXYPadXParameterId' = parameterId
    /\ last' = Called("setXYPadXParameter", parameterId, 0, 0, TRUE)
    /\ UNCHANGED <<lifecycleVars, moduleVars, noteVars, cacheVars, midiVars, autoVars,
                   callbackVars, uiVars, currentXYPadYParameterId, clock, fault>>

SetXYPadYParameter(parameterId) ==
    /\ Step
    /\ currentXYPadYParameterId' = parameterId
    /\ last' = Called("setXYPadYParameter", parameterId, 0, 0, TRUE)
    /\ UNCHANGED <<lifecycleVars, moduleVars, noteVars, cacheVars, midiVars, autoVars,
                   callbackVars, uiVars, currentXYPadXParameterId, clock, fault>>

loadGranularBuffer(buffer) ==
    /\ Step
    /\ IF ~initialized \/ ~Live(granularSynth)
       THEN /\ UNCHANGED granularSynth
            /\ last' = Called("loadGranularBuffer", Len(buffer), 0, 0, FALSE)
       ELSE /\ granularSynth' = << [granularSynth[1] EXCEPT !.buffer = buffer] >>
            /\ last' = Called("loadGranularBuffer", Len(buffer), 0, 0, TRUE)
    /\ UNCHANGED <<lifecycleVars, masterMute, masterVolume, oscillators, filter, envelope,
                   delay, reverb, noteVars, cacheVars, midiVars, autoVars, callbackVars,
                   uiVars, xyVars, clock, fault>>


-----------------------------------------------------------------------------
(* note tracking *)

\* the state noteOn and noteOff read and write
Voices == [oscillators |-> oscillators, envelope |-> envelope, activeNotes |-> activeNotes]

\* noteOn(note, velocity): result state, return value and the envelope calls made
noteOn(w, note, velocity) ==
    IF ~initialized
    THEN [w |-> w, ret |-> FALSE, env |-> <<>>]
    ELSE LET normalizedVelocity == R(velocity, 127)
             frequency == noteToFrequency(note)
         IN  [w |-> [oscillators |-> [i \in DOMAIN w.oscillators |->
                                         [w.oscillators[i] EXCEPT !.frequency = frequency]],
                     envelope |-> IF Live(w.envelope)
                                  THEN << [w.envelope[1] EXCEPT !.stage = "attack",
                                                                !.velocity = normalizedVelocity] >>
                                  ELSE w.envelope,
                     activeNotes |-> Put(w.activeNotes, note, normalizedVelocity)],
              ret |-> TRUE,
              env |-> IF Live(w.envelope) THEN << <<"noteOn", normalizedVelocity>> >> ELSE <<>>]

\* a plausible slip: the release triggered whatever notes are still held
AnyNotesActiveNever(notes) == FALSE

\* anyNotesActive = !activeNotes.empty()
AnyNotesActive(notes) == DOMAIN notes # {}

\* noteOff(note)
noteOff(w, note) ==
    IF ~initialized
    THEN [w |-> w, ret |-> FALSE, env |-> <<>>]
    ELSE LET noteWasActive == HasKey(w.activeNotes, note)
             notes == IF noteWasActive THEN Erase(w.activeNotes, note) ELSE w.activeNotes
             anyNotesActive == AnyNotesActive(notes)
             release == noteWasActive /\ ~anyNotesActive /\ Live(w.envelope)
         IN  [w |-> [oscillators |-> w.oscillators,
                     envelope |-> IF release
                                  THEN << [w.envelope[1] EXCEPT !.stage = "release"] >>
                                  ELSE w.envelope,
                     activeNotes |-> notes],
              ret |-> TRUE,
              env |-> IF release THEN << <<"noteOff", Unset>> >> ELSE <<>>]

StoreVoices(w) ==
    /\ oscillators' = w.oscillators
    /\ envelope' = w.envelope
    /\ activeNotes' = w.activeNotes

\* what a note call leaves alone
VoicesFrame ==
    UNCHANGED <<lifecycleVars, masterMute, masterVolume, filter, delay, reverb, granularSynth,
                cacheVars, midiVars, autoVars, callbackVars, uiVars, xyVars, clock, fault>>

NoteOn(note, velocity) ==
    /\ Step
    /\ LET r == noteOn(Voices, note, velocity)
       IN  /\ StoreVoices(r.w)
           /\ last' = [Called("noteOn", note, velocity, 0, r.ret) EXCEPT !.env = r.env]
    /\ VoicesFrame

NoteOff(note) ==
    /\ Step
    /\ LET r == noteOff(Voices, note)
       IN  /\ StoreVoices(r.w)
           /\ last' = [Called("noteOff", note, 0, 0, r.ret) EXCEPT !.env = r.env]
    /\ VoicesFrame

-----------------------------------------------------------------------------
(* MIDI learn *)

startMidiLearn(parameterId) ==
    /\ Step
    /\ parameterIdToLearn' = parameterId
    /\ midiLearnActive' = TRUE
    /\ last' = Called("startMidiLearn", parameterId, 0, 0, TRUE)
    /\ UNCHANGED <<lifecycleVars, moduleVars, noteVars, cacheVars, ccToParameterMap,
                   lastCcValue, autoVars, callbackVars, uiVars, xyVars, clock, fault>>

stopMidiLearn ==
    /\ Step
    /\ midiLearnActive' = FALSE
    /\ parameterIdToLearn' = -1
    /\ last' = Called("stopMidiLearn", 0, 0, 0, TRUE)
    /\ UNCHANGED <<lifecycleVars, moduleVars, noteVars, cacheVars, ccToParameterMap,
                   lastCcValue, autoVars, callbackVars, uiVars, xyVars, clock, fault>>

setUiControlMidiCallback(callback) ==
    /\ Step
    /\ uiControlMidiCallback_' = callback
    /\ last' = [Called("setUiControlMidiCallback", 0, 0, 0, TRUE) EXCEPT !.flag = callback]
    /\ UNCHANGED <<lifecycleVars, moduleVars, noteVars, cacheVars, midiVars, autoVars,
                   automationParameterChangeCallback, uiVars, xyVars, clock, fault>>

setParameterChangeCallback(callback) ==
    /\ Step
    /\ automationParameterChangeCallback' = callback
    /\ last' = [Called("setParameterChangeCallback", 0, 0, 0, TRUE) EXCEPT !.flag = callback]
    /\ UNCHANGED <<lifecycleVars, moduleVars, noteVars, cacheVars, midiVars, autoVars,
                   uiControlMidiCallback_, uiVars, xyVars, clock, fault>>

-----------------------------------------------------------------------------
(* MIDI event processor *)

\* status & 0xF0, status & 0x0F
MessageType(status) == (status \div 16) * 16
Channel(status) == status % 16

NoteOnStatus == 144
NoteOffStatus == 128
ControlChangeStatus == 176
PitchBendStatus == 224
ChannelPressureStatus == 208
UiChannel == 15

\* (msb << 7) | lsb on two bytes
BendValue(lsb, msb) ==
    LET shifted == msb * 128
        bit7    == (lsb \div 128) % 2
        overlap == bit7 = 1 /\ msb % 2 = 1
    IN  shifted + lsb - (IF overlap THEN 128 ELSE 0)

\* (bendValue - 8192) / 8192
NormalizedBend(lsb, msb) == R(BendValue(lsb, msb) - 8192, 8192)

\* 20 + normalizedCcValue * 19980
ModWheelCutoff(normalizedCcValue) == RAdd(R(20, 1), RMul(normalizedCcValue, R(19980, 1)))

\* a plausible slip: the old mappings kept
EraseNoMapping(map, paramIdToMap) == map

\* the erase loop of MIDI learn: every mapping to paramIdToMap is removed
EraseMappingsTo(map, paramIdToMap) ==
    [cc \in {c \in DOMAIN map : map[c] # paramIdToMap} |-> map[cc]]

MidiCall(status, data1, data2, ret) == Called("processMidiEvent", status, data1, data2, ret)

\* a plausible slip: the whole range 102..110 forwarded
IsUiForwardedCcRange(ccNumber) == ccNumber >= 102 /\ ccNumber <= 110

\* CC on channel 16: UI control
IsUiForwardedCc(ccNumber) == (ccNumber >= 102 /\ ccNumber <= 108) \/ ccNumber = 110

\* a plausible slip: the cycle without the wrap
NextPanelIdNoWrap(panelId) == panelId + 1

\* (currentUiTargetPanelId_.load() + 1) % 128
NextPanelId(panelId) == (panelId + 1) % 128

\* a plausible slip: the channel compared as 1..16
IsUiControlOneBased(status) == Channel(status) = 16 /\ MessageType(status) = ControlChangeStatus

IsUiControl(status) == Channel(status) = UiChannel /\ MessageType(status) = ControlChangeStatus

MidiUiControl(status, data1, data2) ==
    /\ initialized
    /\ IsUiControl(status)
    /\ currentUiTargetPanelId_' =
          CASE data1 = 32 -> data2 % 128
            [] data1 = 109 -> NextPanelId(currentUiTargetPanelId_)
            [] OTHER -> currentUiTargetPanelId_
    /\ last' = [MidiCall(status, data1, data2, TRUE) EXCEPT !.ui =
                   IF IsUiForwardedCc(data1) /\ uiControlMidiCallback_
                   THEN << <<currentUiTargetPanelId_, data1, data2>> >>
                   ELSE <<>>]
    /\ UNCHANGED <<lifecycleVars, moduleVars, noteVars, cacheVars, midiVars, autoVars,
                   callbackVars, xyVars, clock, fault>>

\* not initialized: return false
MidiNotInitialized(status, data1, data2) ==
    /\ ~initialized
    /\ last' = MidiCall(status, data1, data2, FALSE)
    /\ UNCHANGED <<lifecycleVars, moduleVars, noteVars, cacheVars, midiVars, autoVars,
                   callbackVars, uiVars, xyVars, clock, fault>>

\* a plausible slip: every Note On starts a note, whatever its velocity
IsNoteOnAnyVelocity(status, data2) == MessageType(status) = NoteOnStatus

\* case 0x90 with data2 > 0
IsNoteOn(status, data2) == MessageType(status) = NoteOnStatus /\ data2 > 0

\* case 0x90 and case 0x80
MidiNote(status, data1, data2) ==
    /\ initialized /\ ~IsUiControl(status)
    /\ MessageType(status) \in {NoteOnStatus, NoteOffStatus}
    /\ LET r == IF IsNoteOn(status, data2)
                THEN noteOn(Voices, data1, data2)
                ELSE noteOff(Voices, data1)
       IN  /\ StoreVoices(r.w)
           /\ last' = [MidiCall(status, data1, data2, r.ret) EXCEPT !.env = r.env]
    /\ VoicesFrame

\* case 0xE0 and case 0xD0: written through setParameter
MidiBendOrPressure(status, data1, data2) ==
    /\ initialized /\ ~IsUiControl(status)
    /\ MessageType(status) \in {PitchBendStatus, ChannelPressureStatus}
    /\ LET r == IF MessageType(status) = PitchBendStatus
                THEN setParameter(Sound, pitchBend, NormalizedBend(data1, data2), FALSE)
                ELSE setParameter(Sound, channelAftertouch, R(data1, 127), FALSE)
       IN  /\ StoreSound(r.s)
           /\ fault' = IF r.overflow THEN "stack_overflow" ELSE "none"
           /\ last' = MidiCall(status, data1, data2, r.ret)
    /\ UNCHANGED <<lifecycleVars, noteVars, midiVars, callbackVars, uiVars, xyVars, clock,
                   isRecordingAutomation, isPlayingAutomation, automationRecordStartTime,
                   automationPlaybackStartTime, automationPlaybackIndices>>

\* case 0xB0 while MIDI learn is active
MidiLearnCc(status, data1, data2) ==
    /\ initialized /\ ~IsUiControl(status)
    /\ MessageType(status) = ControlChangeStatus
    /\ midiLearnActive
    /\ IF parameterIdToLearn # -1
       THEN /\ ccToParameterMap' = Put(EraseMappingsTo(ccToParameterMap, parameterIdToLearn),
                                       data1, parameterIdToLearn)
            /\ lastCcValue' = Put(lastCcValue, data1, data2)
       ELSE UNCHANGED <<ccToParameterMap, lastCcValue>>
    /\ midiLearnActive' = FALSE
    /\ parameterIdToLearn' = -1
    /\ last' = MidiCall(status, data1, data2, TRUE)
    /\ UNCHANGED <<lifecycleVars, moduleVars, noteVars, cacheVars, autoVars, callbackVars,
                   uiVars, xyVars, clock, fault>>

\* the parameter an unmapped CC falls back to, or -1
FallbackParameter(ccNumber) ==
    CASE ccNumber = 7 -> masterVolumeId
      [] ccNumber = 1 -> filterCutoff
      [] OTHER -> -1

\* a plausible slip: the modulation wheel written unscaled
FallbackValueUnscaled(ccNumber, normalizedCcValue) == normalizedCcValue

\* the value the fallback writes
FallbackValue(ccNumber, normalizedCcValue) ==
    IF ccNumber = 1 THEN ModWheelCutoff(normalizedCcValue) ELSE normalizedCcValue

\* case 0xB0 while MIDI learn is not active: the mapping, else the hardcoded CCs
MidiControlChange(status, data1, data2) ==
    /\ initialized /\ ~IsUiControl(status)
    /\ MessageType(status) = ControlChangeStatus
    /\ ~midiLearnActive
    /\ LET normalizedCcValue == R(data2, 127)
           mapped == HasKey(ccToParameterMap, data1)
           handled == mapped \/ FallbackParameter(data1) # -1
           r == IF mapped
                THEN setParameter(Sound, ccToParameterMap[data1], normalizedCcValue, FALSE)
                ELSE IF handled
                THEN setParameter(Sound, FallbackParameter(data1),
                                  FallbackValue(data1, normalizedCcValue), FALSE)
                ELSE [s |-> Sound, ret |-> FALSE, overflow |-> FALSE]
       IN  /\ StoreSound(r.s)
           /\ fault' = IF r.overflow THEN "stack_overflow" ELSE "none"
           /\ lastCcValue' = IF mapped THEN Put(lastCcValue, data1, data2) ELSE lastCcValue
           /\ last' = MidiCall(status, data1, data2, IF mapped THEN TRUE ELSE r.ret)
    /\ UNCHANGED <<lifecycleVars, noteVars, midiLearnActive, parameterIdToLearn,
                   ccToParameterMap, callbackVars, uiVars, xyVars, clock,
                   isRecordingAutomation, isPlayingAutomation, automationRecordStartTime,
                   automationPlaybackStartTime, automationPlaybackIndices>>

\* default: of the message-type switch
MidiUnhandled(status, data1, data2) ==
    /\ initialized /\ ~IsUiControl(status)
    /\ MessageType(status) \notin {NoteOnStatus, NoteOffStatus, ControlChangeStatus,
                                   PitchBendStatus, ChannelPressureStatus}
    /\ last' = MidiCall(status, data1, data2, FALSE)
    /\ UNCHANGED <<lifecycleVars, moduleVars, noteVars, cacheVars, midiVars, autoVars,
                   callbackVars, uiVars, xyVars, clock, fault>>

processMidiEvent(status, data1, data2) ==
    /\ Step
    /\ \/ MidiNotInitialized(status, data1, data2)
       \/ MidiUiControl(status, data1, data2)
       \/ MidiNote(status, data1, data2)
       \/ MidiBendOrPressure(status, data1, data2)
       \/ MidiLearnCc(status, data1, data2)
       \/ MidiControlChange(status, data1, data2)
       \/ MidiUnhandled(status, data1, data2)


-----------------------------------------------------------------------------
(* automation control *)

startAutomationRecording ==
    /\ Step
    /\ recordedAutomation' = EmptyMap
    /\ automationPlaybackIndices' = EmptyMap
    /\ isRecordingAutomation' = TRUE
    /\ isPlayingAutomation' = FALSE
    /\ automationRecordStartTime' = clock
    /\ last' = Called("startAutomationRecording", 0, 0, 0, TRUE)
    /\ UNCHANGED <<lifecycleVars, moduleVars, noteVars, cacheVars, midiVars,
                   automationPlaybackStartTime, callbackVars, uiVars, xyVars, clock, fault>>

stopAutomationRecording ==
    /\ Step
    /\ isRecordingAutomation' = FALSE
    /\ last' = Called("stopAutomationRecording", 0, 0, 0, TRUE)
    /\ UNCHANGED <<lifecycleVars, moduleVars, noteVars, cacheVars, midiVars,
                   isPlayingAutomation, automationRecordStartTime, automationPlaybackStartTime,
                   recordedAutomation, automationPlaybackIndices,
                   callbackVars, uiVars, xyVars, clock, fault>>

\* a plausible slip: playback started whether or not a track exists
NoAutomationDataNever(tracks) == FALSE

\* recordedAutomation.empty()
NoAutomationData(tracks) == DOMAIN tracks = {}

\* a plausible slip: the cursors reset to the second event
ResetIndicesToOne(tracks) == [id \in DOMAIN tracks |-> 1]

\* automationPlaybackIndices.clear(); automationPlaybackIndices[pair.first] = 0 for every track
ResetIndices(tracks) == [id \in DOMAIN tracks |-> 0]

startAutomationPlayback ==
    /\ Step
    /\ IF NoAutomationData(recordedAutomation)
       THEN /\ isPlayingAutomation' = FALSE
            /\ UNCHANGED <<automationPlaybackIndices, isRecordingAutomation,
                           automationPlaybackStartTime>>
       ELSE /\ automationPlaybackIndices' = ResetIndices(recordedAutomation)
            /\ isPlayingAutomation' = TRUE
            /\ isRecordingAutomation' = FALSE
            /\ automationPlaybackStartTime' = clock
    /\ last' = Called("startAutomationPlayback", 0, 0, 0, TRUE)
    /\ UNCHANGED <<lifecycleVars, moduleVars, noteVars, cacheVars, midiVars,
                   automationRecordStartTime, recordedAutomation,
                   callbackVars, uiVars, xyVars, clock, fault>>

stopAutomationPlayback ==
    /\ Step
    /\ isPlayingAutomation' = FALSE
    /\ last' = Called("stopAutomationPlayback", 0, 0, 0, TRUE)
    /\ UNCHANGED <<lifecycleVars, moduleVars, noteVars, cacheVars, midiVars,
                   isRecordingAutomation, automationRecordStartTime, automationPlaybackStartTime,
                   recordedAutomation, automationPlaybackIndices,
                   callbackVars, uiVars, xyVars, clock, fault>>

clearAutomationData ==
    /\ Step
    /\ recordedAutomation' = EmptyMap
    /\ automationPlaybackIndices' = EmptyMap
    /\ isRecordingAutomation' = FALSE
    /\ isPlayingAutomation' = FALSE
    /\ last' = Called("clearAutomationData", 0, 0, 0, TRUE)
    /\ UNCHANGED <<lifecycleVars, moduleVars, noteVars, cacheVars, midiVars,
                   automationRecordStartTime, automationPlaybackStartTime,
                   callbackVars, uiVars, xyVars, clock, fault>>

hasAutomationData ==
    /\ Step
    /\ last' = Called("hasAutomationData", 0, 0, 0, ~NoAutomationData(recordedAutomation))
    /\ UNCHANGED <<lifecycleVars, moduleVars, noteVars, cacheVars, midiVars, autoVars,
                   callbackVars, uiVars, xyVars, clock, fault>>

\* time passes between two calls
Tick ==
    /\ fault = "none"
    /\ clock < MaxClock
    /\ clock' = clock + 1
    /\ last' = [NoCall EXCEPT !.op = "tick"]
    /\ UNCHANGED <<lifecycleVars, moduleVars, noteVars, cacheVars, midiVars, autoVars,
                   callbackVars, uiVars, xyVars, fault, budget, threadVars, exported>>

-----------------------------------------------------------------------------
(* the audio callback *)

RSub(a, b) == RAdd(a, R(-Num(b), Den(b)))
RAbs(a) == R(Abs(Num(a)), Den(a))
RLess(a, b) == ~RGeq(a, b)

\* the snap threshold of the smoother, 0.00001f
Epsilon == R(1, 100000)

\* SmoothedParameterF::getNextValue: one sample
getNextValue(sp) ==
    LET difference == Float(RSub(sp.targetValue, sp.currentValue))
    IN  IF RLess(RAbs(difference), Epsilon)
        THEN [sp EXCEPT !.currentValue = sp.targetValue]
        ELSE [sp EXCEPT !.currentValue =
                  Float(RAdd(sp.currentValue, Float(RMul(difference, sp.alpha))))]

\* the frame loop of processAudio, as far as the engine's own state goes: the master
\* volume smoother advanced once per frame
RECURSIVE AdvanceFrames(_, _)
AdvanceFrames(sp, numFrames) ==
    IF numFrames <= 0 THEN sp ELSE AdvanceFrames(getNextValue(sp), numFrames - 1)

\* a plausible slip: every event applied in the first block
EventDueAlways(event, currentPlaybackTime) == TRUE

\* track[nextEventIdx].timestamp <= currentPlaybackTime
EventDue(event, currentPlaybackTime) == event.timestamp <= currentPlaybackTime

\* the while loop over one track: setParameter(event.parameterId, event.value, true) for
\* every due event from the cursor on
RECURSIVE DrainTrack(_, _, _, _, _)
DrainTrack(s, track, nextEventIdx, currentPlaybackTime, applied) ==
    IF nextEventIdx < Len(track) /\ EventDue(track[nextEventIdx + 1], currentPlaybackTime)
    THEN LET event == track[nextEventIdx + 1]
             r == setParameter(s, event.parameterId, event.value, TRUE)
         IN  IF r.overflow
             THEN [s |-> r.s, idx |-> nextEventIdx, applied |-> applied, overflow |-> TRUE]
             ELSE DrainTrack(r.s, track, nextEventIdx + 1, currentPlaybackTime,
                             Append(applied, event))
    ELSE [s |-> s, idx |-> nextEventIdx, applied |-> applied, overflow |-> FALSE]

\* for (auto& pair : recordedAutomation): the tracks in the map's iteration order
RECURSIVE DrainTracks(_, _, _, _, _)
DrainTracks(s, order, indices, currentPlaybackTime, applied) ==
    IF order = <<>> THEN [s |-> s, indices |-> indices, applied |-> applied, overflow |-> FALSE]
    ELSE LET paramId == Head(order)
             start == IF HasKey(indices, paramId) THEN indices[paramId] ELSE 0
             d == DrainTrack(s, recordedAutomation[paramId], start, currentPlaybackTime, applied)
             indices1 == Put(indices, paramId, d.idx)
         IN  IF d.overflow
             THEN [s |-> d.s, indices |-> indices1, applied |-> d.applied, overflow |-> TRUE]
             ELSE DrainTracks(d.s, Tail(order), indices1, currentPlaybackTime, d.applied)

\* a plausible slip: only a non-initialized engine is skipped
SkipsBlockUninitialized(isInitialized, mute) == ~isInitialized

\* if (!initialized || masterMute): the block is zeroed and nothing else is done
SkipsBlock(isInitialized, mute) == ~isInitialized \/ mute

\* the body of the loop over the oscillators, for one oscillator: the calls in order
OscillatorPath ==
    <<"oscillator.process">>
    \o (IF Live(envelope) /\ envelope[1].stage # "idle" THEN <<"envelope.process">> ELSE <<>>)
    \o (IF Live(filter) THEN <<"filter.process">> ELSE <<>>)
    \o <<"add">>

RECURSIVE Repeat(_, _)
Repeat(path, n) == IF n <= 0 THEN <<>> ELSE path \o Repeat(path, n - 1)

\* one frame of processAudio: the calls into the smoother and the modules, in order
FramePath ==
    <<"masterVolume.getNextValue">>
    \o Repeat(OscillatorPath, Len(oscillators))
    \o (IF Live(granularSynth) THEN <<"granularSynth.process", "add">> ELSE <<>>)
    \o (IF Live(delay) THEN <<"delay.process", "delay.process">> ELSE <<>>)
    \o (IF Live(reverb) THEN <<"reverb.process", "reverb.process">> ELSE <<>>)
    \o <<"masterVolume.apply", "write">>

\* what follows the frame loop
AfterFrames ==
    <<"updateAudioAnalysis">> \o (IF isPlayingAutomation THEN <<"automationPlayback">> ELSE <<>>)

\* updateAudioAnalysis: the readings a block publishes. The samples themselves are not
\* kept: a block of full-scale module output has the smoothed master volume as its peak,
\* and the band levels and the dominant frequency are kept as that peak too.
updateAudioAnalysis(numFrames, plan, volume) ==
    IF numFrames <= 0 \/ ~plan THEN ZeroReadings
    ELSE [bassLevel |-> volume, midLevel |-> volume, highLevel |-> volume,
          amplitudeLevel |-> volume, dominantFrequency |-> volume]

\* processAudio(outputBuffer, numFrames, numChannels). Oscillator, envelope, filter and
\* effect processing belong to module classes outside this engine; of the output only
\* "zero" (every sample written 0) and "mixed" is kept.
processAudio(numFrames, numChannels) ==
    /\ Step
    /\ IF SkipsBlock(initialized, masterMute)
       THEN /\ last' = [Called("processAudio", numFrames, numChannels, 0, TRUE)
                           EXCEPT !.out = "zero"]
            /\ UNCHANGED <<moduleVars, cacheVars, recordedAutomation,
                           automationPlaybackIndices, fault, analysis>>
       ELSE \E order \in Orders(IF isPlayingAutomation THEN DOMAIN recordedAutomation ELSE {}) :
              LET s0 == [Sound EXCEPT !.masterVolume = AdvanceFrames(@, numFrames)]
                  currentPlaybackTime == clock - automationPlaybackStartTime
                  d == DrainTracks(s0, order, automationPlaybackIndices,
                                   currentPlaybackTime, <<>>)
              IN  /\ StoreSound(d.s)
                  /\ analysis' = updateAudioAnalysis(numFrames, fftPlan,
                                                     s0.masterVolume.currentValue)
                  /\ automationPlaybackIndices' = d.indices
                  /\ fault' = IF d.overflow THEN "stack_overflow" ELSE "none"
                  /\ last' = [Called("processAudio", numFrames, numChannels, 0, TRUE)
                                 EXCEPT !.out = "mixed",
                                        !.frames = [f \in 1..numFrames |-> FramePath],
                                        !.after = AfterFrames,
                                        !.applied = d.applied,
                                        !.notified = IF automationParameterChangeCallback
                                                     THEN d.applied ELSE <<>>]
    /\ UNCHANGED <<initialized, sampleRate, bufferSize, audioPlatform, wavetableManager,
                   fftPlan, noteVars, midiVars, callbackVars, uiVars, xyVars, clock,
                   isRecordingAutomation, isPlayingAutomation, automationRecordStartTime,
                   automationPlaybackStartTime>>

-----------------------------------------------------------------------------
(* preset import *)

(* A preset document, as nlohmann::json::parse and the two item loops see it:
   [wellFormed, parameters, midiCcMappings]; a section is
   [isObject, items], items a sequence (in the document object's key order) of
   [key, val]; key is [kind, n]: "int" when std::stoi(key) returns n, "text" when
   it throws std::invalid_argument, "huge" when it throws std::out_of_range;
   val is [isNumber, v]. *)
IntKey(n) == [kind |-> "int", n |-> n]
TextKey == [kind |-> "text", n |-> 0]
HugeKey == [kind |-> "huge", n |-> 0]
Number(v) == [isNumber |-> TRUE, v |-> v]
NotANumber == [isNumber |-> FALSE, v |-> Unset]
Item(key, val) == [key |-> key, val |-> val]
Section(items) == [isObject |-> TRUE, items |-> items]
NoSection == [isObject |-> FALSE, items |-> <<>>]
Document(parameters, midiCcMappings) ==
    [wellFormed |-> TRUE, parameters |-> parameters, midiCcMappings |-> midiCcMappings]
Malformed == [wellFormed |-> FALSE, parameters |-> NoSection, midiCcMappings |-> NoSection]

\* one item loop: the map built, or thrown when std::out_of_range leaves the loop
RECURSIVE ParseItems(_, _, _)
ParseItems(items, map, asInt) ==
    IF items = <<>> THEN [thrown |-> FALSE, map |-> map]
    ELSE LET it == Head(items)
         IN  CASE it.key.kind = "huge" -> [thrown |-> TRUE, map |-> map]
               [] it.key.kind = "text" -> ParseItems(Tail(items), map, asInt)
               [] OTHER ->
                    IF it.val.isNumber
                    THEN ParseItems(Tail(items),
                                    Put(map, it.key.n,
                                        IF asInt THEN ToInt(it.val.v) ELSE it.val.v),
                                    asInt)
                    ELSE ParseItems(Tail(items), map, asInt)

\* applyParameterMap, iterating in the given order
RECURSIVE applyParameterMap(_, _, _, _)
applyParameterMap(s, parameters, order, fromPresetOrAutomation) ==
    IF order = <<>> THEN [s |-> s, ret |-> TRUE, overflow |-> FALSE]
    ELSE LET r == setParameter(s, Head(order), parameters[Head(order)], fromPresetOrAutomation)
         IN  IF r.overflow THEN r
             ELSE LET rest == applyParameterMap(r.s, parameters, Tail(order), fromPresetOrAutomation)
                  IN  [rest EXCEPT !.ret = r.ret /\ rest.ret]

\* applyMidiMap: the current mappings are replaced
applyMidiMap(midiMappings) == midiMappings

\* a plausible slip: the parse error swallowed and the import carried on
ParsedAlways(doc) == TRUE

\* nlohmann::json::parse(jsonString) returns instead of throwing parse_error
Parsed(doc) == doc.wellFormed

applyPresetDataJson(doc) ==
    /\ Step
    /\ LET params == ParseItems(doc.parameters.items, EmptyMap, FALSE)
           midi == ParseItems(doc.midiCcMappings.items, EmptyMap, TRUE)
           doParams == Parsed(doc) /\ doc.parameters.isObject
           paramsThrown == doParams /\ params.thrown
       IN  \E order \in Orders(DOMAIN params.map) :
             LET r == IF doParams /\ ~params.thrown
                      THEN applyParameterMap(Sound, params.map, order, TRUE)
                      ELSE [s |-> Sound, ret |-> TRUE, overflow |-> FALSE]
                 doMidi == Parsed(doc) /\ ~paramsThrown /\ ~r.overflow
                           /\ doc.midiCcMappings.isObject
                 ok == Parsed(doc) /\ ~paramsThrown /\ ~(doMidi /\ midi.thrown)
             IN  /\ StoreSound(r.s)
                 /\ fault' = IF r.overflow THEN "stack_overflow" ELSE "none"
                 /\ ccToParameterMap' = IF doMidi /\ ~midi.thrown
                                        THEN applyMidiMap(midi.map)
                                        ELSE ccToParameterMap
                 /\ last' = [Called("applyPresetDataJson", 0, 0, 0, ok) EXCEPT !.doc = doc]
    /\ UNCHANGED <<lifecycleVars, noteVars, midiLearnActive, parameterIdToLearn, lastCcValue,
                   callbackVars, uiVars, xyVars, clock,
                   isRecordingAutomation, isPlayingAutomation, automationRecordStartTime,
                   automationPlaybackStartTime, automationPlaybackIndices>>


-----------------------------------------------------------------------------
(* specifications *)

Quarter == R(1, 4)
Three == R(3, 1)

\* the engine is initialized once the audio platform started
InitializeOk == Initialize(48000, 256, R(1, 2), "ok")

\* the host has exported nothing yet
NothingExported == [doc |-> <<>>, parameters |-> EmptyMap, midiCcMappings |-> EmptyMap]

\* a preset that maps two CCs to one parameter, and one that maps one
TwoCcPreset == Document(NoSection, Section(<< Item(IntKey(20), Number(R(10, 1))),
                                              Item(IntKey(21), Number(R(10, 1))) >>))
OneCcPreset == Document(Section(<< Item(IntKey(filterResonance), Number(Quarter)) >>),
                        Section(<< Item(IntKey(20), Number(R(10, 1))),
                                   Item(IntKey(7), Number(R(113, 1))) >>))

\* the MIDI messages of the all-operations specification
WideMidi == { <<191, 32, 127>>, <<191, 32, 200>>, <<191, 109, 0>>, <<191, 102, 9>>,
              <<176, 7, 64>>, <<144, 60, 100>>, <<128, 60, 0>>, <<224, 0, 96>>,
              <<160, 60, 1>> }

Init == Constructed /\ budget = MaxSteps /\ exported = NothingExported

Next ==
    \/ InitializeOk
    \/ shutdown
    \/ \E id \in {masterVolumeId, 999} : SetParameter(id, Quarter, FALSE)
    \/ GetParameter(masterVolumeId)
    \/ NoteOn(60, 100)
    \/ NoteOff(60)
    \/ loadGranularBuffer(<< Quarter >>)
    \/ startMidiLearn(filterCutoff)
    \/ stopMidiLearn
    \/ setUiControlMidiCallback(TRUE)
    \/ setParameterChangeCallback(TRUE)
    \/ SetXYPadXParameter(filterResonance)
    \/ SetXYPadYParameter(filterCutoff)
    \/ startAutomationRecording
    \/ stopAutomationRecording
    \/ startAutomationPlayback
    \/ stopAutomationPlayback
    \/ clearAutomationData
    \/ applyPresetDataJson(OneCcPreset)
    \/ \E m \in WideMidi : processMidiEvent(m[1], m[2], m[3])
    \/ Tick

Spec == Init /\ [][Next]_vars


-----------------------------------------------------------------------------
(* the parameter router alone: many identifiers, XY-pad assignments, recording *)

RouterIds == {masterVolumeId, masterMuteId, filterCutoff, granularActive, 99, -5,
              oscillatorType + 5, oscillatorType + 13, oscillatorType + 17,
              oscillatorType + 20, oscillatorType + 1000, xyPadXValue, xyPadYValue}

RouterValues == {Quarter, Three}

InitRouter == Constructed /\ budget = MaxRouterSteps /\ exported = NothingExported

NextRouter ==
    \/ InitializeOk
    \/ shutdown
    \/ \E id \in RouterIds, v \in RouterValues, fa \in BOOLEAN : SetParameter(id, v, fa)
    \/ \E id \in RouterIds : GetParameter(id)
    \/ \E id \in {oscillatorType + 13, oscillatorType + 20, xyPadXValue, xyPadYValue} :
          SetXYPadXParameter(id)
    \/ SetXYPadYParameter(xyPadXValue)
    \/ startAutomationRecording

SpecRouter == InitRouter /\ [][NextRouter]_vars


-----------------------------------------------------------------------------
(* claims about the parameter router *)

\* a setParameter call that was made on an initialized engine and returned
SetParameterReturned ==
    initialized /\ last'.op = "setParameter" /\ fault' = "none"

\* C1: on an initialized engine every setParameter(id, v, fromAutomation), for any id and
\* either flag, leaves cache[id] = v whether it returns true or false, so that a
\* following getParameter(id) returns v.
C1_CacheWrittenWhateverTheResult ==
    [][SetParameterReturned =>
          \A id \in RouterIds :
              last'.a1 = id =>
                  /\ HasKey(parameterCache', id)
                  /\ parameterCache'[id] = last'.v
                  /\ getParameter(id)' = last'.v]_vars

\* a call for an out-of-range oscillator slot returned false, from automation, and the
\* cache holds its value
C1_Witness ==
    /\ initialized /\ fault = "none"
    /\ last.op = "setParameter" /\ last.a1 = oscillatorType + 20 /\ last.flag
    /\ ~last.ret
    /\ HasKey(parameterCache, oscillatorType + 20)
    /\ parameterCache[oscillatorType + 20] = last.v

\* the identifiers the switch of setParameter names
FixedIds == {masterVolumeId, masterMuteId, pitchBend, channelAftertouch, filterCutoff,
             filterResonance, filterType, attackTime, decayTime, sustainLevel, releaseTime,
             reverbMix, delayTime, delayFeedback} \cup GranularIds

OscillatorRange == oscillatorType .. (oscillatorType + 999)

\* what writing field `off` of an oscillator slot with value v may leave in the slot
SlotAfter(osc, off, v) ==
    CASE off = 0 -> {[osc EXCEPT !.type = ToInt(v)]}
      [] off \in {1, 2, 3, 4, 6} -> {[osc EXCEPT ![OscField(off)] = v]}
      [] off = 5 -> {osc, [osc EXCEPT !.wavetable = ToInt(v)]}
      [] OTHER -> {osc}

\* C2: with N live oscillators, setParameter(100 + slot*10 + field, v) returns true only
\* when slot < N and field is in 0..6, and then writes exactly that slot; for slot >= N,
\* for field 7..9 and for an identifier no case handles it returns false and changes no
\* module and no oscillator slot.
C2_OscillatorSlotDispatch ==
    [][SetParameterReturned =>
          \A id \in RouterIds \ (FixedIds \cup {xyPadXValue, xyPadYValue}) :
              last'.a1 = id =>
                  LET slot  == (id - oscillatorType) \div 10
                      field == (id - oscillatorType) % 10
                      valid == id \in OscillatorRange /\ slot < Len(oscillators) /\ field \in 0..6
                  IN  /\ last'.ret = valid
                      /\ <<masterMute, masterVolume, filter, envelope, delay, reverb,
                           granularSynth>>' =
                         <<masterMute, masterVolume, filter, envelope, delay, reverb,
                           granularSynth>>
                      /\ Len(oscillators') = Len(oscillators)
                      /\ \A i \in 1..Len(oscillators) :
                            IF valid /\ i = slot + 1
                            THEN oscillators'[i] \in SlotAfter(oscillators[i], field, last'.v)
                            ELSE oscillators'[i] = oscillators[i]]_vars

\* the volume of the second oscillator was written and the call returned true
C2_Witness ==
    /\ initialized
    /\ last.op = "setParameter" /\ last.a1 = oscillatorType + 13 /\ last.ret
    /\ oscillators[2].volume = last.v
    /\ oscillators[1] = DefaultOscillators[1]


-----------------------------------------------------------------------------
(* claims checked with every operation enabled *)

\* the tables and flags a call on a non-initialized engine must leave alone
Guarded ==
    <<parameterCache, activeNotes, ccToParameterMap, midiLearnActive, parameterIdToLearn,
      currentUiTargetPanelId_, recordedAutomation>>

\* C3: while the engine is not initialized, setParameter, noteOn, noteOff,
\* processMidiEvent and loadGranularBuffer return false and getParameter returns 0, and
\* none of them changes the parameter cache, the active notes, the CC mapping table, the
\* MIDI-learn state, the UI target panel ID or the automation tracks.
C3_NotInitializedNoOp ==
    [][(~initialized /\ last'.op \in {"setParameter", "noteOn", "noteOff", "processMidiEvent",
                                      "loadGranularBuffer", "getParameter"}) =>
          /\ Guarded' = Guarded
          /\ last'.op # "getParameter" => ~last'.ret
          /\ last'.op = "getParameter" => last'.val = <<0, 1>>]_vars

\* a MIDI message was refused by a non-initialized engine that holds CC mappings
C3_Witness ==
    /\ ~initialized
    /\ last.op = "processMidiEvent" /\ ~last.ret
    /\ DOMAIN ccToParameterMap # {}

\* a Control Change on MIDI channel 16, on an initialized engine
UiCcStep(cc) ==
    /\ initialized
    /\ last'.op = "processMidiEvent"
    /\ last'.a1 = 191
    /\ last'.a2 = cc

\* C7: the UI target panel ID is within 0..127 in every reachable state and changes only
\* through Control Changes on MIDI channel 16: CC 32 with value v sets it to v mod 128,
\* CC 109 sets it to (current + 1) mod 128; nothing else modifies it.
C7_UiTargetPanelId ==
    /\ [](currentUiTargetPanelId_ \in 0..127)
    /\ [][/\ UiCcStep(32) => currentUiTargetPanelId_' = last'.a3 % 128
          /\ UiCcStep(109) => currentUiTargetPanelId_' =
                                 IF currentUiTargetPanelId_ = 127 THEN 0
                                 ELSE currentUiTargetPanelId_ + 1
          /\ ~(UiCcStep(32) \/ UiCcStep(109)) =>
                 currentUiTargetPanelId_' = currentUiTargetPanelId_]_vars

\* CC 109 wrapped the panel ID from 127 to 0
C7_Witness ==
    /\ initialized
    /\ last.op = "processMidiEvent" /\ last.a1 = 191 /\ last.a2 = 109
    /\ currentUiTargetPanelId_ = 0


-----------------------------------------------------------------------------
(* the MIDI event processor driven with a wide set of messages *)

\* Note On and Note Off on channel 1, Note On on channel 16
NoteMessages == {<<st, n, vel>> : st \in {144, 128, 159}, n \in {60, 64}, vel \in {0, 100}}

\* Control Changes on channel 1: the two hardcoded CCs, two mapped by presets, one unknown
SoundCcMessages == {<<176, cc, val>> : cc \in {1, 7, 20, 21, 50}, val \in {64, 200}}

\* Control Changes on channel 16
UiCcMessages ==
    {<<191, cc, val>> : cc \in {0, 7, 20, 32, 101, 102, 108, 109, 110, 111}, val \in {127, 200}}

\* Pitch Bend and Channel Pressure on channels 1 and 16, and two unhandled types
OtherMessages ==
    { <<224, 0, 96>>, <<239, 127, 127>>, <<208, 64, 0>>, <<223, 127, 0>>,
      <<160, 60, 1>>, <<192, 5, 0>> }

MidiMessages == NoteMessages \cup SoundCcMessages \cup UiCcMessages \cup OtherMessages

InitMidi == Constructed /\ budget = MaxMidiSteps /\ exported = NothingExported

NextMidi ==
    \/ InitializeOk
    \/ setUiControlMidiCallback(TRUE)
    \/ \E parameterId \in {filterCutoff, -1} : startMidiLearn(parameterId)
    \/ stopMidiLearn
    \/ \E doc \in {OneCcPreset, TwoCcPreset} : applyPresetDataJson(doc)
    \/ startAutomationRecording
    \/ \E m \in MidiMessages : processMidiEvent(m[1], m[2], m[3])

SpecMidi == InitMidi /\ [][NextMidi]_vars

\* processMidiEvent returned from a message of the given type on an initialized engine
MidiStep(type) ==
    /\ initialized
    /\ last'.op = "processMidiEvent"
    /\ (last'.a1 \div 16) * 16 = type
    /\ fault' = "none"

\* a Control Change on one of the channels 1..15
SoundCcStep == MidiStep(176) /\ last'.a1 % 16 # 15

\* what the learn branch does to the table, the learn state and the sound
LearnOutcome(c, P) ==
    /\ \A k \in DOMAIN ccToParameterMap' \ {c} :
          /\ ccToParameterMap'[k] # P
          /\ HasKey(ccToParameterMap, k) /\ ccToParameterMap'[k] = ccToParameterMap[k]
    /\ \A k \in DOMAIN ccToParameterMap \ {c} :
          ccToParameterMap[k] # P => HasKey(ccToParameterMap', k)
    /\ ~midiLearnActive'
    /\ parameterIdToLearn' = -1
    /\ parameterCache' = parameterCache
    /\ moduleVars' = moduleVars
    /\ last'.ret

\* C4 as amended: on an initialized engine, after startMidiLearn(P) with P other than -1,
\* the next Control Change c on a non-UI channel makes the CC mapping table contain c -> P,
\* removes every other mapping to P, keeps the mappings to other parameters, disarms learn
\* mode (midiLearnActive false, armed parameter -1), and neither routes the message to a
\* sound parameter nor changes the parameter cache. After startMidiLearn(-1) the next
\* Control Change is consumed and learn mode disarmed, but no mapping is created.
C4_LearnMapsArmedParameter ==
    [][(SoundCcStep /\ midiLearnActive) =>
          /\ LearnOutcome(last'.a2, parameterIdToLearn)
          /\ IF parameterIdToLearn # -1
             THEN /\ HasKey(ccToParameterMap', last'.a2)
                  /\ ccToParameterMap'[last'.a2] = parameterIdToLearn
             ELSE ccToParameterMap' = ccToParameterMap]_vars

\* learning CC 21 for the filter cutoff took the cutoff away from CC 20
C4_Witness ==
    /\ initialized
    /\ last.op = "processMidiEvent" /\ last.a1 = 176 /\ last.a2 = 21 /\ last.ret
    /\ ~midiLearnActive /\ parameterIdToLearn = -1
    /\ HasKey(ccToParameterMap, 21) /\ ccToParameterMap[21] = filterCutoff
    /\ ~HasKey(ccToParameterMap, 20)
    /\ HasKey(ccToParameterMap, 7)

\* C4 as stated: whatever P was armed, the Control Change leaves c -> P in the table
C4_Original ==
    [][(SoundCcStep /\ midiLearnActive) =>
          /\ LearnOutcome(last'.a2, parameterIdToLearn)
          /\ HasKey(ccToParameterMap', last'.a2)
          /\ ccToParameterMap'[last'.a2] = parameterIdToLearn]_vars

\* C5: in every reachable state the CC mapping table maps at most one CC number to any
\* given parameter identifier.
C5_OneCcPerParameter ==
    \A c1, c2 \in DOMAIN ccToParameterMap :
        ccToParameterMap[c1] = ccToParameterMap[c2] => c1 = c2

\* C6: with MIDI learn not active, a Control Change (cc, val) on a non-UI channel writes
\* val/127 through setParameter to the parameter cc is mapped to, without the hardcoded
\* fallback; unmapped, cc 7 writes val/127 to the master volume and cc 1 writes
\* 20 + (val/127)*19980 to the filter cutoff; every other unmapped cc returns false and
\* changes no parameter, cache entry or mapping.
C6_ControlChangeRouting ==
    [][(SoundCcStep /\ ~midiLearnActive) =>
          LET cc == last'.a2
              normalized == R(last'.a3, 127)
              mapped == HasKey(ccToParameterMap, cc)
          IN  /\ ccToParameterMap' = ccToParameterMap
              /\ mapped =>
                   LET P == ccToParameterMap[cc]
                   IN  /\ last'.ret
                       /\ HasKey(parameterCache', P) /\ parameterCache'[P] = normalized
                       /\ \A id \in DOMAIN parameterCache' \ {P} :
                             HasKey(parameterCache, id) /\ parameterCache'[id] = parameterCache[id]
                       /\ P = filterCutoff => filter'[1].cutoff = normalized
                       /\ P # masterVolumeId => masterVolume' = masterVolume
                       /\ P # filterCutoff => filter' = filter
              /\ (~mapped /\ cc = 7) =>
                   /\ last'.ret
                   /\ masterVolume'.targetValue = normalized
                   /\ parameterCache'[masterVolumeId] = normalized
                   /\ filter' = filter
              /\ (~mapped /\ cc = 1) =>
                   LET cutoff == RAdd(R(20, 1), RMul(normalized, R(19980, 1)))
                   IN  /\ last'.ret
                       /\ filter'[1].cutoff = cutoff
                       /\ parameterCache'[filterCutoff] = cutoff
                       /\ masterVolume' = masterVolume
              /\ (~mapped /\ cc \notin {1, 7}) =>
                   /\ ~last'.ret
                   /\ parameterCache' = parameterCache
                   /\ moduleVars' = moduleVars]_vars

\* CC 7, mapped by a preset to the volume of the second oscillator, left the master volume
C6_Witness ==
    /\ initialized
    /\ last.op = "processMidiEvent" /\ last.a1 = 176 /\ last.a2 = 7 /\ last.a3 = 64 /\ last.ret
    /\ HasKey(ccToParameterMap, 7) /\ ccToParameterMap[7] = oscillatorType + 13
    /\ parameterCache[oscillatorType + 13] = R(64, 127)
    /\ oscillators[2].volume = R(64, 127)
    /\ ~HasKey(parameterCache, masterVolumeId)

\* C8: on an initialized engine every Control Change on MIDI channel 16, whatever its CC
\* number, the learn state and the mapping table, returns true and leaves the parameter
\* cache, the module parameters, the CC mapping table, the MIDI-learn state and the
\* automation tracks unchanged; CCs 102..108 and 110 call the registered UI callback once
\* with (panel ID, CC number, CC value), and no other channel-16 CC calls it.
C8_UiChannelCcConsumed ==
    [][(MidiStep(176) /\ last'.a1 % 16 = 15) =>
          /\ last'.ret
          /\ parameterCache' = parameterCache
          /\ moduleVars' = moduleVars
          /\ ccToParameterMap' = ccToParameterMap
          /\ midiLearnActive' = midiLearnActive
          /\ parameterIdToLearn' = parameterIdToLearn
          /\ recordedAutomation' = recordedAutomation
          /\ last'.ui = IF last'.a2 \in (102..108) \cup {110} /\ uiControlMidiCallback_
                        THEN << <<currentUiTargetPanelId_, last'.a2, last'.a3>> >>
                        ELSE <<>>]_vars

\* CC 110 reached the UI callback while MIDI learn stayed armed
C8_Witness ==
    /\ initialized
    /\ last.op = "processMidiEvent" /\ last.a1 = 191 /\ last.a2 = 110 /\ last.ret
    /\ last.ui = << <<currentUiTargetPanelId_, 110, last.a3>> >>
    /\ midiLearnActive

\* the sound state a message on channel 16 is said to leave alone
Audible ==
    <<activeNotes, [i \in DOMAIN envelope |-> envelope[i].stage],
      [i \in DOMAIN oscillators |-> oscillators[i].frequency], parameterCache>>

\* a message of the given type on channel 16
UiChannelStep(type) == MidiStep(type) /\ last'.a1 % 16 = 15

C10_NoteOnVelocityZeroIsNoteOff ==
    [][LET n == last'.a2
           rest == DOMAIN activeNotes \ {n}
           released == HasKey(activeNotes, n) /\ rest = {} /\ envelope # <<>>
           offLike == MidiStep(128) \/ (MidiStep(144) /\ last'.a3 = 0)
       IN  /\ (offLike /\ last'.a1 % 16 # 15) =>
                 /\ activeNotes' = [k \in rest |-> activeNotes[k]]
                 /\ last'.env = IF released THEN << <<"noteOff", Unset>> >> ELSE <<>>
                 /\ envelope' = IF released
                                THEN << [envelope[1] EXCEPT !.stage = "release"] >>
                                ELSE envelope
                 /\ oscillators' = oscillators
                 /\ last'.ret
           /\ (MidiStep(144) /\ last'.a3 > 0 /\ last'.a1 % 16 # 15) =>
                 /\ DOMAIN activeNotes' = DOMAIN activeNotes \cup {n}
                 /\ activeNotes'[n] = R(last'.a3, 127)
                 /\ \A k \in rest : activeNotes'[k] = activeNotes[k]
                 /\ last'.ret]_vars

\* a Note On with velocity 0 removed the last active note and released the envelope
C10_Witness ==
    /\ initialized
    /\ last.op = "processMidiEvent" /\ last.a1 = 144 /\ last.a3 = 0 /\ last.ret
    /\ last.env = << <<"noteOff", Unset>> >>
    /\ activeNotes = EmptyMap
    /\ envelope[1].stage = "release"


-----------------------------------------------------------------------------
(* note tracking alone: three notes, held together and apart *)

NoteNumbers == {60, 64, 69}

InitNotes == Constructed /\ budget = MaxNoteSteps /\ exported = NothingExported

NextNotes ==
    \/ InitializeOk
    \/ \E note \in NoteNumbers, velocity \in {64, 127} : NoteOn(note, velocity)
    \/ \E note \in NoteNumbers : NoteOff(note)

SpecNotes == InitNotes /\ [][NextNotes]_vars

\* C11: in a sequence of noteOn and noteOff calls on an initialized engine, the envelope
\* release is triggered exactly by the noteOff(n) calls that remove n from the active
\* notes and leave them empty: a noteOff of a note that is not active, or one that leaves
\* other notes held, triggers no release, and a noteOn triggers the attack and no release.
C11_ReleaseExactlyOnLastNoteOff ==
    [][/\ (initialized /\ last'.op = "noteOff") =>
             LET n == last'.a1
                 removedLast == HasKey(activeNotes, n) /\ DOMAIN activeNotes = {n}
             IN  /\ last'.ret
                 /\ ~HasKey(activeNotes', n)
                 /\ (last'.env = << <<"noteOff", Unset>> >>) <=> removedLast
                 /\ ~removedLast => (last'.env = <<>> /\ envelope' = envelope)
                 /\ removedLast => envelope'[1].stage = "release"
       /\ (initialized /\ last'.op = "noteOn") =>
             /\ last'.env = << <<"noteOn", R(last'.a2, 127)>> >>
             /\ envelope'[1].stage = "attack"]_vars

\* noteOn(69, 127) then noteOff(69): the attack at full velocity, then the release
C11_Witness ==
    /\ initialized
    /\ last.op = "noteOff" /\ last.a1 = 69 /\ last.ret
    /\ last.env = << <<"noteOff", Unset>> >>
    /\ envelope[1].stage = "release" /\ envelope[1].velocity = R(127, 127)
    /\ activeNotes = EmptyMap

-----------------------------------------------------------------------------
(* automation: recording, replay in the audio callback, presets while recording *)

\* the setParameter calls of the host: <<id, value, fromAutomation>>
AutoCalls == { <<filterCutoff, Quarter, FALSE>>, <<masterMuteId, Three, FALSE>>,
               <<xyPadXValue, Quarter, FALSE>>, <<filterCutoff, Three, TRUE>> }

\* {"parameters": {"11": 0.25}}: the filter resonance
ResonancePreset == Document(Section(<< Item(IntKey(filterResonance), Number(Quarter)) >>), NoSection)

InitAuto == Constructed /\ budget = MaxAutoSteps /\ exported = NothingExported

NextAuto ==
    \/ InitializeOk
    \/ \E c \in AutoCalls : SetParameter(c[1], c[2], c[3])
    \/ startAutomationRecording
    \/ stopAutomationRecording
    \/ startAutomationPlayback
    \/ stopAutomationPlayback
    \/ clearAutomationData
    \/ hasAutomationData
    \/ setParameterChangeCallback(TRUE)
    \/ applyPresetDataJson(ResonancePreset)
    \/ processAudio(2, 2)
    \/ Tick

SpecAuto == InitAuto /\ [][NextAuto]_vars

\* the number of events in all tracks
RECURSIVE EventCount(_, _)
EventCount(tracks, ids) ==
    IF ids = {} THEN 0
    ELSE LET id == CHOOSE x \in ids : TRUE
         IN  Len(tracks[id]) + EventCount(tracks, ids \ {id})

TotalEvents(tracks) == EventCount(tracks, DOMAIN tracks)

\* C12: while recording is active, an external setParameter(id, v) appends exactly one
\* event in all, (id, v, t) with t >= 0 at the end of the track of id, pad identifiers and
\* calls returning false included; a call with fromAutomation = true appends nothing.
C12_OneEventPerExternalCall ==
    [][(initialized /\ isRecordingAutomation /\ last'.op = "setParameter")
       => IF last'.flag
          THEN recordedAutomation' = recordedAutomation
          ELSE /\ TotalEvents(recordedAutomation') = TotalEvents(recordedAutomation) + 1
               /\ HasKey(recordedAutomation', last'.a1)
               /\ LET track == recordedAutomation'[last'.a1]
                      event == track[Len(track)]
                  IN  /\ event.parameterId = last'.a1
                      /\ event.value = last'.v
                      /\ event.timestamp >= 0]_vars

\* the parameters an import applies: the entries of the document's "parameters" object
\* with an integer key and a number value
AppliedParameters(doc) == ParseItems(doc.parameters.items, EmptyMap, FALSE).map

\* the length of a track, 0 when there is none
TrackLength(tracks, id) == IF HasKey(tracks, id) THEN Len(tracks[id]) ELSE 0

Cursor(indices, id) == IF HasKey(indices, id) THEN indices[id] ELSE 0

\* the events of one block's replay that belong to the track of id, in applied order
AppliedOn(applied, id) ==
    LET OnTrack(event) == event.parameterId = id
    IN  SelectSeq(applied, OnTrack)

\* C14: replay fidelity per track. A block of the audio callback applies, for every
\* track, exactly the events between the old and the new cursor, in recorded order, each
\* of them due (timestamp <= elapsed playback time), and appends nothing to any track;
\* between two blocks of one playback nothing moves a cursor or changes a track. So the
\* events applied since startAutomationPlayback are always the first `cursor` events of
\* the track, each applied once.
C14_ReplayFidelity ==
    [][/\ (initialized /\ isPlayingAutomation /\ last'.op = "processAudio")
          => /\ recordedAutomation' = recordedAutomation
             /\ \A id \in DOMAIN recordedAutomation :
                  LET track == recordedAutomation[id]
                      from == Cursor(automationPlaybackIndices, id)
                      to == Cursor(automationPlaybackIndices', id)
                  IN  /\ from <= to /\ to <= Len(track)
                      /\ AppliedOn(last'.applied, id) = SubSeq(track, from + 1, to)
                      /\ \A k \in (from + 1)..to :
                            track[k].timestamp <= clock - automationPlaybackStartTime
             /\ \A k \in 1..Len(last'.applied) :
                  last'.applied[k].parameterId \in DOMAIN recordedAutomation
       /\ (isPlayingAutomation /\ isPlayingAutomation'
           /\ last'.op \notin {"processAudio", "startAutomationPlayback"})
          => UNCHANGED <<recordedAutomation, automationPlaybackIndices>>
       /\ last'.op # "processAudio" => last'.applied = <<>>]_vars

\* a block that replayed the first event of a track and left a later one for its time
C14_Witness ==
    /\ initialized /\ isPlayingAutomation
    /\ last.op = "processAudio"
    /\ Len(last.applied) >= 1
    /\ \E id \in DOMAIN recordedAutomation :
          /\ Cursor(automationPlaybackIndices, id) >= 1
          /\ Cursor(automationPlaybackIndices, id) < Len(recordedAutomation[id])

\* C15: replay progress. Every block processed on an initialized engine while playback is
\* active, muted or not, ends with the cursor of every track past all the events whose
\* timestamp is <= the elapsed playback time.
C15_EveryBlockDrainsDueEvents ==
    [][(initialized /\ isPlayingAutomation /\ last'.op = "processAudio")
       => \A id \in DOMAIN recordedAutomation' :
            \A k \in 1..Len(recordedAutomation'[id]) :
               recordedAutomation'[id][k].timestamp <= clock - automationPlaybackStartTime
                  => Cursor(automationPlaybackIndices', id) >= k]_vars

\* C16: startAutomationPlayback turns playback on only when a track exists. With no
\* track it leaves playback off and changes no track or cursor; with a track it sets the
\* cursor of every track to 0, playback on and recording off. hasAutomationData returns
\* true exactly when a track exists.
C16_PlaybackNeedsATrack ==
    /\ [](isPlayingAutomation => DOMAIN recordedAutomation # {})
    /\ [][/\ last'.op = "startAutomationPlayback"
             => /\ recordedAutomation' = recordedAutomation
                /\ IF DOMAIN recordedAutomation = {}
                   THEN /\ ~isPlayingAutomation'
                        /\ automationPlaybackIndices' = automationPlaybackIndices
                   ELSE /\ DOMAIN automationPlaybackIndices' = DOMAIN recordedAutomation
                        /\ \A id \in DOMAIN recordedAutomation :
                              automationPlaybackIndices'[id] = 0
                        /\ isPlayingAutomation' /\ ~isRecordingAutomation'
          /\ last'.op = "hasAutomationData"
             => last'.ret = (DOMAIN recordedAutomation # {})]_vars

\* playback started over recorded tracks
C16_Witness ==
    /\ last.op = "startAutomationPlayback"
    /\ isPlayingAutomation /\ ~isRecordingAutomation
    /\ DOMAIN recordedAutomation # {}
    /\ \A id \in DOMAIN recordedAutomation : Cursor(automationPlaybackIndices, id) = 0

\* C17: every cursor belongs to a track and satisfies 0 <= cursor <= length of the track;
\* no call but startAutomationPlayback makes a cursor smaller; startAutomationPlayback
\* over existing tracks, a restart while playing included, leaves every cursor 0;
\* stopAutomationPlayback and stopAutomationRecording change no track and no cursor.
C17_CursorsBoundedAndMonotonic ==
    /\ [](\A id \in DOMAIN automationPlaybackIndices :
            /\ id \in DOMAIN recordedAutomation
            /\ 0 <= automationPlaybackIndices[id]
            /\ automationPlaybackIndices[id] <= Len(recordedAutomation[id]))
    /\ [][/\ last'.op # "startAutomationPlayback"
             => \A id \in DOMAIN automationPlaybackIndices \cap DOMAIN automationPlaybackIndices' :
                   automationPlaybackIndices'[id] >= automationPlaybackIndices[id]
          /\ (last'.op = "startAutomationPlayback" /\ DOMAIN recordedAutomation # {})
             => \A id \in DOMAIN automationPlaybackIndices' : automationPlaybackIndices'[id] = 0
          /\ last'.op \in {"stopAutomationPlayback", "stopAutomationRecording"}
             => UNCHANGED <<recordedAutomation, automationPlaybackIndices>>]_vars

\* playback stopped after a block advanced a cursor: the cursor is kept
C17_Witness ==
    /\ last.op = "stopAutomationPlayback"
    /\ \E id \in DOMAIN automationPlaybackIndices : automationPlaybackIndices[id] >= 1

-----------------------------------------------------------------------------
(* control threads: the automation calls step by step. A call is entered by an idle
   thread and advances one shared-memory access (or one critical section) at a time;
   pc[t].at names the access the thread makes next. *)

Enter(t) == Turn /\ pc[t].at = "idle"
Continue(t, at) == fault = "none" /\ pc[t].at = at /\ UNCHANGED budget
Goto(t, at) == pc' = [pc EXCEPT ![t].at = at]
Return(t) == pc' = [pc EXCEPT ![t] = Idle]
\* std::lock_guard<std::mutex> lock(m): the constructor and the destructor
Acquire(m, t) == mutexOwner[m] = "none" /\ mutexOwner' = [mutexOwner EXCEPT ![m] = t]
Release(m, t) == mutexOwner[m] = t /\ mutexOwner' = [mutexOwner EXCEPT ![m] = "none"]
Running == last' = [NoCall EXCEPT !.op = "running"]

\* setParameter, entry: the initialized check and the load of isRecordingAutomation
setParameterEnter(t, parameterId, value) ==
    /\ Enter(t)
    /\ IF ~initialized
       THEN /\ UNCHANGED pc
            /\ last' = [Called("setParameter", parameterId, 0, 0, FALSE) EXCEPT !.v = value]
       ELSE /\ pc' = [pc EXCEPT ![t] = [at |-> IF isRecordingAutomation THEN "sp_record"
                                                                         ELSE "sp_cache",
                                         parameterId |-> parameterId, value |-> value,
                                         pads |-> {}]]
            /\ Running
    /\ UNCHANGED <<lifecycleVars, moduleVars, noteVars, cacheVars, midiVars, autoVars,
                   callbackVars, uiVars, xyVars, clock, fault, mutexOwner, exported>>

\* setParameter, the block entered when the flag was read true: lock, push_back, unlock
setParameterRecord(t) ==
    /\ Continue(t, "sp_record")
    /\ mutexOwner["automationMutex"] = "none"
    /\ recordedAutomation' = PushEvent(recordedAutomation, pc[t].parameterId, pc[t].value,
                                       clock - automationRecordStartTime)
    /\ Goto(t, "sp_cache")
    /\ Running
    /\ UNCHANGED <<lifecycleVars, moduleVars, noteVars, cacheVars, midiVars,
                   isRecordingAutomation, isPlayingAutomation, automationRecordStartTime,
                   automationPlaybackStartTime, automationPlaybackIndices,
                   callbackVars, uiVars, xyVars, clock, fault, mutexOwner, exported>>

\* setParameter, the rest: the cache write, then the passthrough (the call starts over
\* for the assigned identifier) or the switch
setParameterApply(t) ==
    /\ Continue(t, "sp_cache")
    /\ mutexOwner["parameterMutex"] = "none"
    /\ LET parameterId == pc[t].parameterId
           s1 == WriteCache(Sound, parameterId, pc[t].value)
           target == IF parameterId = xyPadXValue THEN currentXYPadXParameterId
                     ELSE currentXYPadYParameterId
       IN  IF parameterId \in {xyPadXValue, xyPadYValue}
           THEN /\ StoreSound(s1)
                /\ IF parameterId \in pc[t].pads
                   THEN fault' = "stack_overflow" /\ Return(t)
                   ELSE /\ fault' = fault
                        /\ pc' = [pc EXCEPT ![t].at = IF isRecordingAutomation
                                                       THEN "sp_record" ELSE "sp_cache",
                                            ![t].parameterId = target,
                                            ![t].pads = @ \cup {parameterId}]
                /\ Running
           ELSE LET d == Dispatch(s1, parameterId, pc[t].value)
                IN  /\ StoreSound(d.s)
                    /\ fault' = fault
                    /\ Return(t)
                    /\ last' = [Called("setParameter", parameterId, 0, 0, d.ret)
                                   EXCEPT !.v = pc[t].value]
    /\ UNCHANGED <<lifecycleVars, noteVars, midiVars, callbackVars, uiVars, xyVars, clock,
                   isRecordingAutomation, isPlayingAutomation, automationRecordStartTime,
                   automationPlaybackStartTime, automationPlaybackIndices,
                   mutexOwner, exported>>

\* what the automation control calls leave alone
ControlFrame ==
    UNCHANGED <<lifecycleVars, moduleVars, noteVars, cacheVars, midiVars,
                callbackVars, uiVars, xyVars, clock, fault, exported>>

\* stopAutomationRecording: one atomic store, no lock
stopAutomationRecordingStore(t) ==
    /\ Enter(t)
    /\ isRecordingAutomation' = FALSE
    /\ last' = Called("stopAutomationRecording", 0, 0, 0, TRUE)
    /\ ControlFrame
    /\ UNCHANGED <<isPlayingAutomation, automationRecordStartTime, automationPlaybackStartTime,
                   recordedAutomation, automationPlaybackIndices, threadVars>>

\* startAutomationRecording: the lock and the two clear() calls
startAutomationRecordingLock(t) ==
    /\ Enter(t)
    /\ Acquire("automationMutex", t)
    /\ recordedAutomation' = EmptyMap
    /\ automationPlaybackIndices' = EmptyMap
    /\ Goto(t, "rec_recording")
    /\ Running
    /\ ControlFrame
    /\ UNCHANGED <<isRecordingAutomation, isPlayingAutomation, automationRecordStartTime,
                   automationPlaybackStartTime>>

\* isRecordingAutomation.store(true)
startAutomationRecordingStoreRecording(t) ==
    /\ Continue(t, "rec_recording")
    /\ isRecordingAutomation' = TRUE
    /\ Goto(t, "rec_playing")
    /\ Running
    /\ ControlFrame
    /\ UNCHANGED <<isPlayingAutomation, automationRecordStartTime, automationPlaybackStartTime,
                   recordedAutomation, automationPlaybackIndices, mutexOwner>>

\* isPlayingAutomation.store(false), the start time, the unlock
startAutomationRecordingStorePlaying(t) ==
    /\ Continue(t, "rec_playing")
    /\ isPlayingAutomation' = FALSE
    /\ automationRecordStartTime' = clock
    /\ Release("automationMutex", t)
    /\ Return(t)
    /\ last' = Called("startAutomationRecording", 0, 0, 0, TRUE)
    /\ ControlFrame
    /\ UNCHANGED <<isRecordingAutomation, automationPlaybackStartTime,
                   recordedAutomation, automationPlaybackIndices>>

\* startAutomationPlayback: the lock, the empty check and the cursor reset
startAutomationPlaybackLock(t) ==
    /\ Enter(t)
    /\ mutexOwner["automationMutex"] = "none"
    /\ IF NoAutomationData(recordedAutomation)
       THEN /\ isPlayingAutomation' = FALSE
            /\ last' = Called("startAutomationPlayback", 0, 0, 0, TRUE)
            /\ UNCHANGED <<automationPlaybackIndices, threadVars>>
       ELSE /\ automationPlaybackIndices' = ResetIndices(recordedAutomation)
            /\ mutexOwner' = [mutexOwner EXCEPT !["automationMutex"] = t]
            /\ Goto(t, "play_playing")
            /\ Running
            /\ UNCHANGED isPlayingAutomation
    /\ ControlFrame
    /\ UNCHANGED <<isRecordingAutomation, automationRecordStartTime,
                   automationPlaybackStartTime, recordedAutomation>>

\* isPlayingAutomation.store(true)
startAutomationPlaybackStorePlaying(t) ==
    /\ Continue(t, "play_playing")
    /\ isPlayingAutomation' = TRUE
    /\ Goto(t, "play_recording")
    /\ Running
    /\ ControlFrame
    /\ UNCHANGED <<isRecordingAutomation, automationRecordStartTime, automationPlaybackStartTime,
                   recordedAutomation, automationPlaybackIndices, mutexOwner>>

\* isRecordingAutomation.store(false), the start time, the unlock
startAutomationPlaybackStoreRecording(t) ==
    /\ Continue(t, "play_recording")
    /\ isRecordingAutomation' = FALSE
    /\ automationPlaybackStartTime' = clock
    /\ Release("automationMutex", t)
    /\ Return(t)
    /\ last' = Called("startAutomationPlayback", 0, 0, 0, TRUE)
    /\ ControlFrame
    /\ UNCHANGED <<isPlayingAutomation, automationRecordStartTime,
                   recordedAutomation, automationPlaybackIndices>>

\* clearAutomationData: the lock and the two clear() calls
clearAutomationDataLock(t) ==
    /\ Enter(t)
    /\ Acquire("automationMutex", t)
    /\ recordedAutomation' = EmptyMap
    /\ automationPlaybackIndices' = EmptyMap
    /\ Goto(t, "clear_recording")
    /\ Running
    /\ ControlFrame
    /\ UNCHANGED <<isRecordingAutomation, isPlayingAutomation, automationRecordStartTime,
                   automationPlaybackStartTime>>

\* isRecordingAutomation.store(false)
clearAutomationDataStoreRecording(t) ==
    /\ Continue(t, "clear_recording")
    /\ isRecordingAutomation' = FALSE
    /\ Goto(t, "clear_playing")
    /\ Running
    /\ ControlFrame
    /\ UNCHANGED <<isPlayingAutomation, automationRecordStartTime, automationPlaybackStartTime,
                   recordedAutomation, automationPlaybackIndices, mutexOwner>>

\* isPlayingAutomation.store(false), the unlock
clearAutomationDataStorePlaying(t) ==
    /\ Continue(t, "clear_playing")
    /\ isPlayingAutomation' = FALSE
    /\ Release("automationMutex", t)
    /\ Return(t)
    /\ last' = Called("clearAutomationData", 0, 0, 0, TRUE)
    /\ ControlFrame
    /\ UNCHANGED <<isRecordingAutomation, automationRecordStartTime, automationPlaybackStartTime,
                   recordedAutomation, automationPlaybackIndices>>

\* hasAutomationData: lock, !recordedAutomation.empty(), unlock
hasAutomationDataLocked(t) ==
    /\ Enter(t)
    /\ mutexOwner["automationMutex"] = "none"
    /\ last' = Called("hasAutomationData", 0, 0, 0, ~NoAutomationData(recordedAutomation))
    /\ ControlFrame
    /\ UNCHANGED <<autoVars, threadVars>>

RaceIds == {filterCutoff, xyPadXValue}

InitRace == Constructed /\ budget = MaxRaceSteps /\ exported = NothingExported

NextRace ==
    \/ InitializeOk
    \/ \E t \in Threads :
          \/ \E id \in RaceIds : setParameterEnter(t, id, Quarter)
          \/ setParameterRecord(t)
          \/ setParameterApply(t)
          \/ stopAutomationRecordingStore(t)
          \/ startAutomationRecordingLock(t)
          \/ startAutomationRecordingStoreRecording(t)
          \/ startAutomationRecordingStorePlaying(t)
          \/ startAutomationPlaybackLock(t)
          \/ startAutomationPlaybackStorePlaying(t)
          \/ startAutomationPlaybackStoreRecording(t)
          \/ clearAutomationDataLock(t)
          \/ clearAutomationDataStoreRecording(t)
          \/ clearAutomationDataStorePlaying(t)
          \/ hasAutomationDataLocked(t)

SpecRace == InitRace /\ [][NextRace]_vars

\* C18: under every interleaving of setParameter with stopAutomationRecording,
\* startAutomationPlayback and clearAutomationData, an event is appended to a track only
\* in a state where recording is active.
C18_AppendOnlyWhileRecording ==
    [][TotalEvents(recordedAutomation') > TotalEvents(recordedAutomation)
       => isRecordingAutomation]_vars

\* C19: the recording-active and playback-active flags are never both true, the states
\* between the flag stores of startAutomationRecording and startAutomationPlayback
\* included.
C19_RecordingPlaybackExclusive == ~(isRecordingAutomation /\ isPlayingAutomation)

-----------------------------------------------------------------------------
(* preset export, and import into a second engine *)

\* one sequence over the keys of a map. nlohmann::json keeps the keys of an object
\* sorted as strings; the import loops build an unordered_map from the items, so for
\* distinct keys only the set of items reaches the engine.
KeyOrder(map) == CHOOSE order \in Orders(DOMAIN map) : TRUE

\* j[section][std::to_string(pair.first)] = pair.second for every pair: no section at
\* all for an empty map, else one item per pair, its key the decimal text std::stoi
\* reads back as the same int
DumpSection(map, asInt) ==
    IF DOMAIN map = {} THEN NoSection
    ELSE Section([i \in 1..Len(KeyOrder(map)) |->
                     LET key == KeyOrder(map)[i]
                     IN  Item(IntKey(key),
                              Number(IF asInt THEN ToFloat(map[key]) ELSE map[key]))])

\* getCurrentPresetDataJson(name): the parameter cache and the CC table, copied and
\* dumped. The host keeps the text; `exported` also keeps the two maps it was made of.
getCurrentPresetDataJson(name) ==
    /\ Turn
    /\ \A t \in DOMAIN pc : pc[t].at = "idle"
    /\ LET doc == Document(DumpSection(parameterCache, FALSE),
                           DumpSection(ccToParameterMap, TRUE))
       IN  /\ exported' = [doc |-> doc, parameters |-> parameterCache,
                           midiCcMappings |-> ccToParameterMap]
           /\ last' = [Called("getCurrentPresetDataJson", 0, 0, 0, TRUE) EXCEPT !.doc = doc]
    /\ UNCHANGED <<lifecycleVars, moduleVars, noteVars, cacheVars, midiVars, autoVars,
                   callbackVars, uiVars, xyVars, clock, fault, threadVars>>

\* the host constructs a second engine and goes on with it
NewEngine ==
    /\ Step
    /\ initialized' = FALSE
    /\ sampleRate' = 44100
    /\ bufferSize' = 512
    /\ masterMute' = FALSE
    /\ masterVolume' = [currentValue |-> R(3, 4), targetValue |-> R(3, 4),
                       alpha |-> setSmoothingTime(20, 44100)]
    /\ audioPlatform' = "null"
    /\ oscillators' = <<>>
    /\ filter' = NULL /\ envelope' = NULL /\ delay' = NULL /\ reverb' = NULL
    /\ granularSynth' = NULL
    /\ wavetableManager' = FALSE
    /\ fftPlan' = FALSE
    /\ analysis' = ZeroReadings
    /\ activeNotes' = EmptyMap
    /\ parameterCache' = EmptyMap
    /\ midiLearnActive' = FALSE
    /\ parameterIdToLearn' = -1
    /\ ccToParameterMap' = EmptyMap
    /\ lastCcValue' = EmptyMap
    /\ isRecordingAutomation' = FALSE
    /\ isPlayingAutomation' = FALSE
    /\ automationRecordStartTime' = 0
    /\ automationPlaybackStartTime' = 0
    /\ recordedAutomation' = EmptyMap
    /\ automationPlaybackIndices' = EmptyMap
    /\ automationParameterChangeCallback' = FALSE
    /\ uiControlMidiCallback_' = FALSE
    /\ currentUiTargetPanelId_' = 0
    /\ currentXYPadXParameterId' = filterCutoff
    /\ currentXYPadYParameterId' = filterResonance
    /\ last' = Called("SynthEngine", 0, 0, 0, TRUE)
    /\ UNCHANGED <<clock, fault>>

\* the host imports the text it exported last
ImportExported ==
    /\ exported # NothingExported
    /\ applyPresetDataJson(exported.doc)

PresetIds == {filterCutoff, xyPadXValue}

InitPreset == Constructed /\ budget = MaxPresetSteps /\ exported = NothingExported

NextPreset ==
    \/ InitializeOk
    \/ \E id \in PresetIds, v \in {Quarter, Three} : SetParameter(id, v, FALSE)
    \/ startMidiLearn(filterCutoff)
    \/ processMidiEvent(176, 7, 64)
    \/ getCurrentPresetDataJson("preset")
    \/ NewEngine
    \/ ImportExported

SpecPreset == InitPreset /\ [][NextPreset]_vars

\* an initialized engine on which nothing has been set, learned or assigned
FreshInitialized ==
    /\ initialized
    /\ parameterCache = EmptyMap
    /\ ccToParameterMap = EmptyMap
    /\ ~midiLearnActive
    /\ currentXYPadXParameterId = filterCutoff
    /\ currentXYPadYParameterId = filterResonance

\* C20: preset round trip. Importing the exported text into a fresh initialized engine
\* returns true, and afterwards getParameter(id) equals the exported cache value for
\* every exported id and the CC table equals the exported one.
C20_PresetRoundTrip ==
    [][(FreshInitialized /\ exported # NothingExported
        /\ last'.op = "applyPresetDataJson" /\ last'.doc = exported.doc)
       => /\ last'.ret
          /\ \A id \in DOMAIN exported.parameters :
                getParameter(id)' = exported.parameters[id]
          /\ ccToParameterMap' = exported.midiCcMappings]_vars

-----------------------------------------------------------------------------
(* preset import: documents that do not parse, bad entries, recorded tracks *)

\* a text cut off before its closing brace: {"parameters": {"10": 3.0}, "midiCcMappings": {"7": 11}
TruncatedPreset ==
    [wellFormed |-> FALSE,
     parameters |-> Section(<< Item(IntKey(filterCutoff), Number(Three)) >>),
     midiCcMappings |-> Section(<< Item(IntKey(7), Number(ToFloat(filterResonance))) >>)]

\* {"parameters": {"cutoff": 3.0, "10": "high", "11": 0.25},
\*  "midiCcMappings": {"seven": 10, "8": null, "7": 11}}
MixedPreset ==
    Document(Section(<< Item(TextKey, Number(Three)),
                        Item(IntKey(filterCutoff), NotANumber),
                        Item(IntKey(filterResonance), Number(Quarter)) >>),
             Section(<< Item(TextKey, Number(ToFloat(filterCutoff))),
                        Item(IntKey(8), NotANumber),
                        Item(IntKey(7), Number(ToFloat(filterResonance))) >>))

\* {"parameters": {"11": 0.25, "99999999999": 3.0}, "midiCcMappings": {"7": 11}}
HugeParameterPreset ==
    Document(Section(<< Item(IntKey(filterResonance), Number(Quarter)),
                        Item(HugeKey, Number(Three)) >>),
             Section(<< Item(IntKey(7), Number(ToFloat(filterResonance))) >>))

\* {"parameters": {"11": 0.25}, "midiCcMappings": {"7": 11, "99999999999": 10}}
HugeCcPreset ==
    Document(Section(<< Item(IntKey(filterResonance), Number(Quarter)) >>),
             Section(<< Item(IntKey(7), Number(ToFloat(filterResonance))),
                        Item(HugeKey, Number(ToFloat(filterCutoff))) >>))

ImportDocuments == {Malformed, TruncatedPreset, MixedPreset, HugeParameterPreset,
                    HugeCcPreset, OneCcPreset}

InitImport == Constructed /\ budget = MaxImportSteps /\ exported = NothingExported

NextImport ==
    \/ InitializeOk
    \/ SetParameter(filterCutoff, Quarter, FALSE)
    \/ startAutomationRecording
    \/ stopAutomationRecording
    \/ clearAutomationData
    \/ \E doc \in ImportDocuments : applyPresetDataJson(doc)

SpecImport == InitImport /\ [][NextImport]_vars

\* C21: importing a document that does not parse returns false and leaves the parameter
\* cache, every module parameter, the CC table and the automation data as they were.
C21_UnparseableDocumentChangesNothing ==
    [][(last'.op = "applyPresetDataJson" /\ ~last'.doc.wellFormed)
       => /\ ~last'.ret
          /\ UNCHANGED <<parameterCache, moduleVars, ccToParameterMap,
                         recordedAutomation, automationPlaybackIndices>>]_vars

\* the cut-off text rejected by an engine that has a cached value and a CC mapping
C21_Witness ==
    /\ initialized
    /\ last.op = "applyPresetDataJson" /\ last.doc = TruncatedPreset /\ ~last.ret
    /\ HasKey(parameterCache, filterCutoff) /\ parameterCache[filterCutoff] = Quarter
    /\ HasKey(ccToParameterMap, 20)

\* the entries of a section with an integer key in int range and a number value
RECURSIVE GoodEntries(_, _, _)
GoodEntries(items, map, asInt) ==
    IF items = <<>> THEN map
    ELSE LET it == Head(items)
         IN  IF it.key.kind = "int" /\ it.val.isNumber
             THEN GoodEntries(Tail(items),
                              Put(map, it.key.n, IF asInt THEN ToInt(it.val.v) ELSE it.val.v),
                              asInt)
             ELSE GoodEntries(Tail(items), map, asInt)

\* C22: importing a well-formed document never aborts because of a bad entry. Entries
\* whose key is not an integer, or out of int range, or whose value is not a number are
\* skipped; every other entry of both sections is applied; the call returns true.
C22_BadEntriesSkipped ==
    [][(initialized /\ last'.op = "applyPresetDataJson" /\ last'.doc.wellFormed)
       => /\ last'.ret
          /\ last'.doc.parameters.isObject
             => \A id \in DOMAIN GoodEntries(last'.doc.parameters.items, EmptyMap, FALSE) :
                   /\ HasKey(parameterCache', id)
                   /\ parameterCache'[id] =
                         GoodEntries(last'.doc.parameters.items, EmptyMap, FALSE)[id]
          /\ last'.doc.midiCcMappings.isObject
             => ccToParameterMap' =
                   GoodEntries(last'.doc.midiCcMappings.items, EmptyMap, TRUE)]_vars

\* C23: the automation tracks are emptied or replaced only by startAutomationRecording,
\* clearAutomationData and a preset load, and a preset load replaces them wholesale: a
\* track recorded before a successful import is no longer present after it.
C23_PresetLoadReplacesTracks ==
    [][/\ (\E id \in DOMAIN recordedAutomation : ~HasKey(recordedAutomation', id))
          => last'.op \in {"startAutomationRecording", "clearAutomationData",
                           "applyPresetDataJson"}
       /\ (last'.op = "applyPresetDataJson" /\ last'.ret)
          => \A id \in DOMAIN recordedAutomation : ~HasKey(recordedAutomation', id)]_vars

-----------------------------------------------------------------------------
(* lifecycle: initialize again, initialize failing, shutdown *)

Outcomes == {"ok", "fft", "platform_init", "platform_start"}

\* the setParameter calls of the host: <<id, value>>
LifeCalls == { <<masterVolumeId, Three>>, <<filterCutoff, Three>>,
               <<masterMuteId, Three>>, <<masterMuteId, Quarter>> }

InitLife == Constructed /\ budget = MaxLifeSteps /\ exported = NothingExported

NextLife ==
    \/ \E sr \in {48000, 44100}, initialVolume \in {R(1, 2), Quarter}, outcome \in Outcomes :
          Initialize(sr, 256, initialVolume, outcome)
    \/ shutdown
    \/ \E c \in LifeCalls : SetParameter(c[1], c[2], FALSE)
    \/ NoteOn(60, 100)
    \/ startMidiLearn(filterCutoff)
    \/ processMidiEvent(176, 7, 64)
    \/ startAutomationRecording
    \/ processAudio(1, 2)

SpecLife == InitLife /\ [][NextLife]_vars

\* C24: initialize on an initialized engine returns true and changes nothing; a first
\* successful initialize leaves the master-volume smoother with current = target =
\* initialVolume, so that the first advanced sample is initialVolume.
C24_InitializeIdempotent ==
    [][/\ (initialized /\ last'.op = "initialize")
          => /\ last'.ret
             /\ UNCHANGED <<lifecycleVars, moduleVars, noteVars, cacheVars, midiVars, autoVars,
                            callbackVars, uiVars, xyVars>>
       /\ (~initialized /\ last'.op = "initialize" /\ last'.ret)
          => /\ initialized'
             /\ masterVolume'.currentValue = last'.v
             /\ masterVolume'.targetValue = last'.v
             /\ getNextValue(masterVolume').currentValue = last'.v]_vars

\* a second initialize, with another rate, on an engine whose volume target has moved
C24_Witness ==
    /\ initialized
    /\ last.op = "initialize" /\ last.ret
    /\ last.a1 # sampleRate
    /\ masterVolume.targetValue = Three
    /\ masterVolume.currentValue # Three

\* C25: after shutdown on an initialized engine, initialized is false, the modules and
\* the analysis plan are released and the active notes, the parameter cache, the CC table
\* and the automation tracks and cursors are empty; shutdown on an engine that is not
\* initialized leaves no module, audio platform or buffer allocated.
C25_ShutdownReleasesEverything ==
    [][last'.op = "shutdown"
       => /\ ~initialized'
          /\ oscillators' = <<>> /\ filter' = NULL /\ envelope' = NULL
          /\ delay' = NULL /\ reverb' = NULL /\ granularSynth' = NULL
          /\ ~wavetableManager' /\ ~fftPlan' /\ audioPlatform' = "null"
          /\ initialized
             => /\ activeNotes' = EmptyMap
                /\ parameterCache' = EmptyMap
                /\ ccToParameterMap' = EmptyMap
                /\ recordedAutomation' = EmptyMap
                /\ automationPlaybackIndices' = EmptyMap]_vars

-----------------------------------------------------------------------------
(* shutdown against the audio callback, step by step *)

\* a plausible slip: the backend stopped only after everything was torn down
ShutdownOrderStopLast == << "sd_modules", "sd_platform", "sd_tables", "sd_stop", "sd_flag" >>

\* the statements of shutdown() in program order: audioPlatform->stop(), the module
\* resets, audioPlatform.reset(), the table and analysis clean-up, initialized = false
ShutdownOrder == << "sd_stop", "sd_modules", "sd_platform", "sd_tables", "sd_flag" >>

\* what follows a statement of shutdown(): the next one, or the return
AfterShutdownStep(at) ==
    LET k == CHOOSE i \in 1..Len(ShutdownOrder) : ShutdownOrder[i] = at
    IN  IF k < Len(ShutdownOrder) THEN ShutdownOrder[k + 1] ELSE "idle"

ShutdownStep(t, at) ==
    /\ Continue(t, at)
    /\ Goto(t, AfterShutdownStep(at))
    /\ last' = IF AfterShutdownStep(at) = "idle" THEN Called("shutdown", 0, 0, 0, TRUE)
               ELSE [NoCall EXCEPT !.op = "running"]
    /\ UNCHANGED <<midiVars, autoVars, callbackVars, uiVars, xyVars, clock, fault,
                   mutexOwner, exported>>

\* shutdown, entry: if (!initialized) return
shutdownEnter(t) ==
    /\ Enter(t)
    /\ IF ~initialized
       THEN UNCHANGED pc /\ last' = Called("shutdown", 0, 0, 0, TRUE)
       ELSE Goto(t, ShutdownOrder[1]) /\ Running
    /\ UNCHANGED <<lifecycleVars, moduleVars, noteVars, cacheVars, midiVars, autoVars,
                   callbackVars, uiVars, xyVars, clock, fault, mutexOwner, exported>>

\* if (audioPlatform) audioPlatform->stop(). The platform class is not part of the
\* engine's source; stop() returns once the callback is not running and will not run again
shutdownStop(t) ==
    /\ ShutdownStep(t, "sd_stop")
    /\ IF audioPlatform = "null"
       THEN UNCHANGED audioPlatform
       ELSE pc[AudioThread].at = "idle" /\ audioPlatform' = "stopped"
    /\ UNCHANGED <<initialized, analysis, sampleRate, bufferSize, wavetableManager, fftPlan,
                   moduleVars, noteVars, cacheVars>>

\* oscillators.clear() and the reset() of every module
shutdownModules(t) ==
    /\ ShutdownStep(t, "sd_modules")
    /\ oscillators' = <<>>
    /\ filter' = NULL /\ envelope' = NULL /\ delay' = NULL /\ reverb' = NULL
    /\ wavetableManager' = FALSE
    /\ granularSynth' = NULL
    /\ UNCHANGED <<initialized, analysis, sampleRate, bufferSize, audioPlatform, fftPlan,
                   masterMute, masterVolume, noteVars, cacheVars>>

\* audioPlatform.reset()
shutdownPlatform(t) ==
    /\ ShutdownStep(t, "sd_platform")
    /\ audioPlatform' = "null"
    /\ UNCHANGED <<initialized, analysis, sampleRate, bufferSize, wavetableManager, fftPlan,
                   moduleVars, noteVars, cacheVars>>

\* activeNotes.clear() and parameterCache.clear() under their locks, then the FFT plan
\* and the analysis buffers
shutdownTables(t) ==
    /\ ShutdownStep(t, "sd_tables")
    /\ mutexOwner["notesMutex"] = "none" /\ mutexOwner["parameterMutex"] = "none"
    /\ activeNotes' = EmptyMap
    /\ parameterCache' = EmptyMap
    /\ fftPlan' = FALSE
    /\ UNCHANGED <<initialized, analysis, sampleRate, bufferSize, audioPlatform, wavetableManager,
                   moduleVars>>

\* initialized = false
shutdownFlag(t) ==
    /\ ShutdownStep(t, "sd_flag")
    /\ initialized' = FALSE
    /\ UNCHANGED <<analysis, sampleRate, bufferSize, audioPlatform, wavetableManager, fftPlan,
                   moduleVars, noteVars, cacheVars>>

\* the backend calls processAudio: the initialized and mute checks. The backend runs
\* its callback only between start() and stop()
audioCallbackEnter(numFrames, numChannels) ==
    /\ Enter(AudioThread)
    /\ audioPlatform = "running"
    /\ IF SkipsBlock(initialized, masterMute)
       THEN /\ UNCHANGED pc
            /\ last' = [Called("processAudio", numFrames, numChannels, 0, TRUE)
                           EXCEPT !.out = "zero"]
       ELSE /\ pc' = [pc EXCEPT ![AudioThread].at = "pa_synth",
                                ![AudioThread].parameterId = numFrames]
            /\ Running
    /\ UNCHANGED <<lifecycleVars, moduleVars, noteVars, cacheVars, midiVars, autoVars,
                   callbackVars, uiVars, xyVars, clock, fault, mutexOwner, exported>>

\* the frame loop over the modules and updateAudioAnalysis
audioCallbackSynth ==
    /\ Continue(AudioThread, "pa_synth")
    /\ masterVolume' = AdvanceFrames(masterVolume, pc[AudioThread].parameterId)
    /\ analysis' = updateAudioAnalysis(pc[AudioThread].parameterId, fftPlan,
                                       masterVolume'.currentValue)
    /\ Goto(AudioThread, "pa_drain")
    /\ Running
    /\ UNCHANGED <<initialized, sampleRate, bufferSize, audioPlatform, wavetableManager,
                   fftPlan, masterMute, oscillators, filter, envelope, delay, reverb,
                   granularSynth, noteVars, cacheVars, midiVars, autoVars, callbackVars,
                   uiVars, xyVars, clock, fault, mutexOwner, exported>>

\* the automation playback section, under automationMutex
audioCallbackDrain ==
    /\ Continue(AudioThread, "pa_drain")
    /\ isPlayingAutomation => mutexOwner["automationMutex"] = "none"
    /\ \E order \in Orders(IF isPlayingAutomation THEN DOMAIN recordedAutomation ELSE {}) :
         LET d == DrainTracks(Sound, order, automationPlaybackIndices,
                              clock - automationPlaybackStartTime, <<>>)
         IN  /\ StoreSound(d.s)
             /\ automationPlaybackIndices' = d.indices
             /\ fault' = IF d.overflow THEN "stack_overflow" ELSE "none"
             /\ last' = [Called("processAudio", pc[AudioThread].parameterId, 0, 0, TRUE)
                            EXCEPT !.out = "mixed", !.applied = d.applied,
                                   !.notified = IF automationParameterChangeCallback
                                                THEN d.applied ELSE <<>>]
    /\ Return(AudioThread)
    /\ UNCHANGED <<lifecycleVars, noteVars, midiVars, callbackVars, uiVars, xyVars, clock,
                   isRecordingAutomation, isPlayingAutomation, automationRecordStartTime,
                   automationPlaybackStartTime, mutexOwner, exported>>

InitShutdown == Constructed /\ budget = MaxShutdownSteps /\ exported = NothingExported

NextShutdown ==
    \/ \E outcome \in {"ok", "platform_start"} : Initialize(48000, 256, R(1, 2), outcome)
    \/ SetParameter(masterVolumeId, Three, FALSE)
    \/ audioCallbackEnter(2, 2)
    \/ audioCallbackSynth
    \/ audioCallbackDrain
    \/ \E t \in {"control1"} :
          \/ shutdownEnter(t)
          \/ shutdownStop(t)
          \/ shutdownModules(t)
          \/ shutdownPlatform(t)
          \/ shutdownTables(t)
          \/ shutdownFlag(t)

SpecShutdown == InitShutdown /\ [][NextShutdown]_vars

\* the audio callback is inside the synthesis loop, the analysis update or the drain
InCallbackBody == pc[AudioThread].at \in {"pa_synth", "pa_drain"}

\* a module, the audio platform or the analysis plan has been released
SomethingReleased ==
    \/ oscillators = <<>> \/ ~Live(filter) \/ ~Live(envelope) \/ ~Live(delay)
    \/ ~Live(reverb) \/ ~Live(granularSynth)
    \/ ~fftPlan \/ audioPlatform = "null"

\* C26: shutdown stops the backend callback before it releases anything, so the audio
\* callback is never inside its body while a module or buffer it uses has been released;
\* and no shutdown statement that releases something runs before the backend was stopped.
C26_ShutdownSynchronous ==
    /\ [](InCallbackBody => ~SomethingReleased)
    /\ [][(SomethingReleased' /\ ~SomethingReleased) => audioPlatform = "stopped"]_vars

\* shutdown has released the modules after a callback ran to its end
C26_Witness ==
    /\ \E t \in Threads : pc[t].at = "sd_platform"
    /\ SomethingReleased
    /\ masterVolume.currentValue # masterVolume.targetValue
    /\ pc[AudioThread].at = "idle"

\* C27 as stated: processAudio on an engine that is not initialized or is muted writes
\* every sample 0 and advances neither the smoother nor a module; master mute is set
\* exactly when the last setParameter(masterMute, v) had v >= 0.5, so after every such
\* call it is set exactly when v >= 0.5.
C27_Original ==
    [][/\ (last'.op = "processAudio" /\ (~initialized \/ masterMute))
          => /\ last'.out = "zero"
             /\ UNCHANGED <<moduleVars, cacheVars, autoVars>>
       /\ (last'.op = "setParameter" /\ last'.a1 = masterMuteId)
          => masterMute' = RGeq(last'.v, R(1, 2))]_vars

\* C27: the silence policy as above; master mute is set exactly when the last
\* setParameter(masterMute, v) executed on an initialized engine had v >= 0.5. A call on
\* an engine that is not initialized returns false and leaves master mute as it was, and
\* nothing but a call that reaches setParameter changes it.
C27_SilencePolicy ==
    [][/\ (last'.op = "processAudio" /\ (~initialized \/ masterMute))
          => /\ last'.out = "zero"
             /\ UNCHANGED <<moduleVars, cacheVars, autoVars>>
       /\ (last'.op = "setParameter" /\ last'.a1 = masterMuteId)
          => IF initialized THEN masterMute' = RGeq(last'.v, R(1, 2))
             ELSE ~last'.ret /\ masterMute' = masterMute
       /\ masterMute' # masterMute
          => last'.op \in {"setParameter", "applyPresetDataJson", "processAudio",
                           "processMidiEvent"}]_vars

\* a block silenced by the mute while the volume smoother still has a way to go
C27_Witness ==
    /\ initialized /\ masterMute
    /\ last.op = "processAudio" /\ last.out = "zero"
    /\ masterVolume.currentValue # masterVolume.targetValue

\* C28: setParameter(masterVolume, v) changes the smoother's target and never its current
\* value; on an initialized engine nothing but a block of the audio callback changes the
\* current value.
C28_TargetChangeKeepsCurrent ==
    [][/\ (initialized /\ last'.op = "setParameter" /\ last'.a1 = masterVolumeId)
          => /\ masterVolume'.targetValue = last'.v
             /\ masterVolume'.currentValue = masterVolume.currentValue
             /\ masterVolume'.alpha = masterVolume.alpha
       /\ (initialized /\ masterVolume'.currentValue # masterVolume.currentValue)
          => last'.op = "processAudio"]_vars

\* a new target set while the current value is still the initial volume
C28_Witness ==
    /\ initialized
    /\ last.op = "setParameter" /\ last.a1 = masterVolumeId /\ last.ret
    /\ masterVolume.targetValue = Three
    /\ masterVolume.currentValue \in {R(1, 2), Quarter}

-----------------------------------------------------------------------------
(* the master-volume smoother on its own: SmoothedParameterF call by call *)

\* the values given to the smoother: 2^24 is the first float whose neighbours are two
\* apart, so that 2^24 + 1 and 2^24 - 1/2 are no floats
SmoothValues == { R(0, 1), R(1, 2), R(16777216, 1), R(16777218, 1) }
\* smoothing time in ms and sample rate
SmoothTimes == { <<0, 44100>>, <<20, 0>>, <<20, 44100>> }

SmootherUnchanged ==
    UNCHANGED <<lifecycleVars, masterMute, oscillators, filter, envelope, delay, reverb,
                granularSynth, noteVars, cacheVars, midiVars, autoVars, callbackVars,
                uiVars, xyVars, clock, fault>>

SmootherSetCurrentAndTarget(value) ==
    /\ Step
    /\ masterVolume' = setCurrentAndTarget(masterVolume, value)
    /\ last' = [Called("setCurrentAndTarget", 0, 0, 0, TRUE) EXCEPT !.v = value]
    /\ SmootherUnchanged

SmootherSetTarget(target) ==
    /\ Step
    /\ masterVolume' = setTarget(masterVolume, target)
    /\ last' = [Called("setTarget", 0, 0, 0, TRUE) EXCEPT !.v = target]
    /\ SmootherUnchanged

SmootherSetSmoothingTime(timeMs, sr) ==
    /\ Step
    /\ masterVolume' = [masterVolume EXCEPT !.alpha = setSmoothingTime(timeMs, sr)]
    /\ last' = Called("setSmoothingTime", timeMs, sr, 0, TRUE)
    /\ SmootherUnchanged

SmootherGetNextValue ==
    /\ Step
    /\ masterVolume' = getNextValue(masterVolume)
    /\ last' = [Called("getNextValue", 0, 0, 0, TRUE) EXCEPT !.val = masterVolume'.currentValue]
    /\ SmootherUnchanged

InitSmooth == Constructed /\ budget = MaxSmoothSteps /\ exported = NothingExported

NextSmooth ==
    \/ \E value \in SmoothValues : SmootherSetCurrentAndTarget(value)
    \/ \E target \in SmoothValues : SmootherSetTarget(target)
    \/ \E time \in SmoothTimes : SmootherSetSmoothingTime(time[1], time[2])
    \/ SmootherGetNextValue

SpecSmooth == InitSmooth /\ [][NextSmooth]_vars

\* c2 lies between c1 and t, the ends included
Between(c1, c2, t) ==
    \/ RGeq(c2, c1) /\ RGeq(t, c2)
    \/ RGeq(c1, c2) /\ RGeq(c2, t)

\* C29: whatever the current value, the target and the coefficient, one advance
\* yields a value between the old current value and the target, the ends included:
\* it moves towards the target, comes no farther from it and never passes it.
C29_AdvanceStaysBetween ==
    [][last'.op = "getNextValue"
       => Between(masterVolume.currentValue, masterVolume'.currentValue,
                  masterVolume.targetValue)]_vars

\* C30: with the target left alone, repeated advances reach the target exactly after
\* finitely many calls and stay there; with coefficient 1 one advance reaches it. The
\* advance is a function of the smoother alone, so an advance that leaves a current
\* value other than the target where it is will leave it there for ever: reaching
\* the target requires every advance away from the target to move.
C30_AdvanceConverges ==
    [][last'.op = "getNextValue"
       => /\ masterVolume.currentValue # masterVolume.targetValue
             => masterVolume'.currentValue # masterVolume.currentValue
          /\ masterVolume.currentValue = masterVolume.targetValue
             => masterVolume'.currentValue = masterVolume.targetValue
          /\ masterVolume.alpha = R(1, 1)
             => masterVolume'.currentValue = masterVolume.targetValue]_vars

-----------------------------------------------------------------------------
(* termination of setParameter *)

\* C33: setParameter returns for every identifier and every axis assignment: a call
\* with a passthrough identifier whose axis is assigned to a real parameter does what
\* the call for that parameter does, and a call returns also when an axis is assigned
\* to its own passthrough identifier or the two axes to each other.
C33_SetParameterTerminates ==
    [][(initialized /\ last'.op = "setParameter")
       => /\ fault' = "none"
          /\ (/\ last'.a1 = xyPadXValue
              /\ currentXYPadXParameterId \notin {xyPadXValue, xyPadYValue})
             => last'.ret = Dispatch(Sound, currentXYPadXParameterId, last'.v).ret]_vars

-----------------------------------------------------------------------------
(* the initialized flag against the modules *)

\* C38: in every state in which initialized is true both oscillators, the filter, the
\* envelope, the delay, the reverb, the granular synthesizer and the audio platform
\* exist, so that an operation that has passed its initialized check finds them.
C38_InitializedImpliesModules ==
    initialized => /\ Len(oscillators) = 2
                   /\ Live(filter) /\ Live(envelope) /\ Live(delay) /\ Live(reverb)
                   /\ Live(granularSynth)
                   /\ audioPlatform # "null"

-----------------------------------------------------------------------------
(* replay order across tracks *)

\* the timestamps of a sequence of events never go down
InTimestampOrder(events) ==
    \A i, j \in 1..Len(events) : i < j => events[i].timestamp <= events[j].timestamp

\* C39 as stated: the events a block applies, over all tracks, are applied in
\* non-decreasing timestamp order.
C39_Original ==
    [][last'.op = "processAudio" => InTimestampOrder(last'.applied)]_vars

\* C39: replay order holds track by track. Every track is in non-decreasing timestamp
\* order, and the events a block applies from one track are applied in that order;
\* the tracks themselves are drained one after the other, in the map's order.
C39_PerTrackReplayOrder ==
    /\ [](\A id \in DOMAIN recordedAutomation : InTimestampOrder(recordedAutomation[id]))
    /\ [][last'.op = "processAudio"
          => \A id \in DOMAIN recordedAutomation :
                InTimestampOrder(AppliedOn(last'.applied, id))]_vars

\* a block that applied two events of one track recorded at different times, and an
\* earlier event of another track after them
C39_Witness ==
    /\ last.op = "processAudio"
    /\ \E i, j, k \in 1..Len(last.applied) :
          /\ i < j /\ j < k
          /\ last.applied[i].parameterId = last.applied[j].parameterId
          /\ last.applied[i].timestamp < last.applied[j].timestamp
          /\ last.applied[k].parameterId # last.applied[j].parameterId
          /\ last.applied[k].timestamp < last.applied[j].timestamp

-----------------------------------------------------------------------------
(* the signal path of one frame *)

\* where a call occurs in a frame
Positions(path, call) == {i \in 1..Len(path) : path[i] = call}

\* every call of the first kind is made before every call of the second kind
Before(path, first, second) ==
    \A i \in Positions(path, first), j \in Positions(path, second) : i < j

\* C35: in every frame of a block processed on an initialized, non-muted engine the
\* smoother is advanced once, the oscillators are all processed and summed before the
\* filter, which processes the sum exactly once, then the granular output is added,
\* then the delay and then the reverb process the signal, and the master volume is
\* applied last; after the frames the analysis update runs before the automation drain.
C35_SignalPath ==
    [][(last'.op = "processAudio" /\ last'.out = "mixed")
       => /\ \A k \in 1..Len(last'.frames) :
               LET frame == last'.frames[k]
               IN  /\ Cardinality(Positions(frame, "masterVolume.getNextValue")) = 1
                   /\ Cardinality(Positions(frame, "oscillator.process")) = Len(oscillators)
                   /\ Cardinality(Positions(frame, "filter.process")) =
                         (IF Live(filter) THEN 1 ELSE 0)
                   /\ Before(frame, "oscillator.process", "filter.process")
                   /\ Before(frame, "filter.process", "granularSynth.process")
                   /\ Before(frame, "granularSynth.process", "delay.process")
                   /\ Before(frame, "delay.process", "reverb.process")
                   /\ Before(frame, "reverb.process", "masterVolume.apply")
                   /\ Cardinality(Positions(frame, "masterVolume.apply")) = 1
          /\ Len(last'.after) >= 1
          /\ last'.after[1] = "updateAudioAnalysis"
          /\ Before(last'.after, "updateAudioAnalysis", "automationPlayback")]_vars

-----------------------------------------------------------------------------
(* the analysis readings *)

\* C40: the five readings change only in a block that processAudio runs on an
\* initialized, non-muted engine; no other operation, initialize and shutdown among
\* them, writes them, and a block on a muted or non-initialized engine leaves them as
\* the last processed block published them.
C40_ReadingsWrittenByAudioOnly ==
    [][/\ analysis' # analysis
          => last'.op = "processAudio" /\ initialized /\ ~masterMute
       /\ (last'.op = "processAudio" /\ (~initialized \/ masterMute))
          => analysis' = analysis
       /\ last'.op \in {"initialize", "shutdown"} => analysis' = analysis]_vars

\* a muted engine, then an engine shut down, still showing the readings of a block
C40_Witness ==
    /\ last.op = "shutdown" /\ ~initialized
    /\ analysis # ZeroReadings

-----------------------------------------------------------------------------
(* noteOn and noteOff from concurrent control threads, step by step *)

\* what a step of a note call leaves alone
NoteStepFrame ==
    UNCHANGED <<lifecycleVars, masterMute, masterVolume, filter, delay, reverb, granularSynth,
                cacheVars, midiVars, autoVars, callbackVars, uiVars, xyVars, clock, fault,
                mutexOwner, exported>>

\* noteOn, up to the lock: the initialized check, setFrequency on every oscillator and
\* envelope->noteOn, none of them under a mutex
noteOnTrigger(t, note, velocity) ==
    /\ Enter(t)
    /\ IF ~initialized
       THEN /\ UNCHANGED <<pc, oscillators, envelope>>
            /\ last' = Called("noteOn", note, velocity, 0, FALSE)
       ELSE /\ oscillators' = [i \in DOMAIN oscillators |->
                                  [oscillators[i] EXCEPT !.frequency = noteToFrequency(note)]]
            /\ envelope' = IF Live(envelope)
                           THEN << [envelope[1] EXCEPT !.stage = "attack",
                                                       !.velocity = R(velocity, 127)] >>
                           ELSE envelope
            /\ pc' = [pc EXCEPT ![t] = [Idle EXCEPT !.at = "on_track", !.parameterId = note,
                                                    !.value = R(velocity, 127)]]
            /\ last' = [NoCall EXCEPT !.op = "running",
                                      !.env = IF Live(envelope)
                                              THEN << <<"noteOn", R(velocity, 127)>> >>
                                              ELSE <<>>]
    /\ UNCHANGED activeNotes
    /\ NoteStepFrame

\* noteOn, the block under notesMutex: activeNotes[note] = normalizedVelocity
noteOnTrack(t) ==
    /\ Continue(t, "on_track")
    /\ mutexOwner["notesMutex"] = "none"
    /\ activeNotes' = Put(activeNotes, pc[t].parameterId, pc[t].value)
    /\ Return(t)
    /\ last' = Called("noteOn", pc[t].parameterId, 0, 0, TRUE)
    /\ UNCHANGED <<oscillators, envelope>>
    /\ NoteStepFrame

\* noteOff, the first block under notesMutex: find and erase
noteOffErase(t, note) ==
    /\ Enter(t)
    /\ IF ~initialized
       THEN /\ UNCHANGED <<pc, activeNotes>>
            /\ last' = Called("noteOff", note, 0, 0, FALSE)
       ELSE /\ mutexOwner["notesMutex"] = "none"
            /\ IF HasKey(activeNotes, note)
               THEN /\ activeNotes' = Erase(activeNotes, note)
                    /\ pc' = [pc EXCEPT ![t] = [Idle EXCEPT !.at = "off_check",
                                                            !.parameterId = note]]
                    /\ Running
               ELSE /\ UNCHANGED <<pc, activeNotes>>
                    /\ last' = Called("noteOff", note, 0, 0, TRUE)
    /\ UNCHANGED <<oscillators, envelope>>
    /\ NoteStepFrame

\* noteOff, the second block under notesMutex: anyNotesActive = !activeNotes.empty()
noteOffCheck(t) ==
    /\ Continue(t, "off_check")
    /\ mutexOwner["notesMutex"] = "none"
    /\ IF AnyNotesActive(activeNotes)
       THEN Return(t) /\ last' = Called("noteOff", pc[t].parameterId, 0, 0, TRUE)
       ELSE Goto(t, "off_release") /\ Running
    /\ UNCHANGED <<oscillators, envelope, activeNotes>>
    /\ NoteStepFrame

\* noteOff, after the locks: if (!anyNotesActive && envelope) envelope->noteOff()
noteOffRelease(t) ==
    /\ Continue(t, "off_release")
    /\ envelope' = IF Live(envelope) THEN << [envelope[1] EXCEPT !.stage = "release"] >>
                   ELSE envelope
    /\ Return(t)
    /\ last' = [Called("noteOff", pc[t].parameterId, 0, 0, TRUE)
                   EXCEPT !.env = IF Live(envelope) THEN << <<"noteOff", Unset>> >> ELSE <<>>]
    /\ UNCHANGED <<oscillators, activeNotes>>
    /\ NoteStepFrame

InitNoteRace == Constructed /\ budget = MaxNoteRaceSteps /\ exported = NothingExported

NextNoteRace ==
    \/ InitializeOk
    \/ \E t \in Threads :
          \/ \E note \in {60, 61} : noteOnTrigger(t, note, 100)
          \/ noteOnTrack(t)
          \/ \E note \in {60, 61} : noteOffErase(t, note)
          \/ noteOffCheck(t)
          \/ noteOffRelease(t)

SpecNoteRace == InitNoteRace /\ [][NextNoteRace]_vars

\* the step just made called envelope->noteOff()
ReleaseCalled == last'.op = "noteOff" /\ last'.env = << <<"noteOff", Unset>> >>

\* C34: under every interleaving of noteOn and noteOff from concurrent threads the
\* envelope release is called only at a moment when no note is active, and at most
\* once for each time the active notes become empty: never on an envelope that was
\* released already and has not been triggered since.
C34_ReleaseOnlyWhenEmpty ==
    [][ReleaseCalled => /\ activeNotes = EmptyMap
                        /\ envelope[1].stage # "release"]_vars

-----------------------------------------------------------------------------
(* MIDI learn from concurrent control threads, one atomic load or store per step *)

\* what a step of a learn call leaves alone
LearnStepFrame ==
    UNCHANGED <<lifecycleVars, moduleVars, noteVars, cacheVars, autoVars, callbackVars,
                uiVars, xyVars, clock, fault, exported>>

\* startMidiLearn: parameterIdToLearn.store(parameterId)
startMidiLearnStoreId(t, parameterId) ==
    /\ Enter(t)
    /\ parameterIdToLearn' = parameterId
    /\ pc' = [pc EXCEPT ![t] = [Idle EXCEPT !.at = "learn_arm", !.parameterId = parameterId]]
    /\ Running
    /\ UNCHANGED <<midiLearnActive, ccToParameterMap, lastCcValue, mutexOwner>>
    /\ LearnStepFrame

\* startMidiLearn: midiLearnActive.store(true)
startMidiLearnStoreActive(t) ==
    /\ Continue(t, "learn_arm")
    /\ midiLearnActive' = TRUE
    /\ Return(t)
    /\ last' = Called("startMidiLearn", pc[t].parameterId, 0, 0, TRUE)
    /\ UNCHANGED <<parameterIdToLearn, ccToParameterMap, lastCcValue, mutexOwner>>
    /\ LearnStepFrame

\* stopMidiLearn: midiLearnActive.store(false)
stopMidiLearnStoreActive(t) ==
    /\ Enter(t)
    /\ midiLearnActive' = FALSE
    /\ Goto(t, "learn_clear")
    /\ Running
    /\ UNCHANGED <<parameterIdToLearn, ccToParameterMap, lastCcValue, mutexOwner>>
    /\ LearnStepFrame

\* stopMidiLearn: parameterIdToLearn.store(-1)
stopMidiLearnStoreId(t) ==
    /\ Continue(t, "learn_clear")
    /\ parameterIdToLearn' = -1
    /\ Return(t)
    /\ last' = Called("stopMidiLearn", 0, 0, 0, TRUE)
    /\ UNCHANGED <<midiLearnActive, ccToParameterMap, lastCcValue, mutexOwner>>
    /\ LearnStepFrame

\* processMidiEvent, case 0xB0: if (midiLearnActive.load()); the else branch is the
\* routed Control Change
midiCcLoadActive(t, data1, data2) ==
    /\ Enter(t)
    /\ initialized
    /\ IF midiLearnActive
       THEN /\ pc' = [pc EXCEPT ![t] = [Idle EXCEPT !.at = "cc_learn", !.parameterId = data1,
                                                    !.value = <<data2, 1>>]]
            /\ Running
            /\ UNCHANGED <<midiVars, mutexOwner>>
            /\ LearnStepFrame
       ELSE /\ mutexOwner["midiMappingMutex"] = "none"
            /\ MidiControlChange(ControlChangeStatus, data1, data2)
            /\ UNCHANGED <<threadVars, exported>>

\* the learn branch under midiMappingMutex: parameterIdToLearn.load() and the mapping
midiCcLearnMap(t) ==
    /\ Continue(t, "cc_learn")
    /\ Acquire("midiMappingMutex", t)
    /\ IF parameterIdToLearn # -1
       THEN /\ ccToParameterMap' = Put(EraseMappingsTo(ccToParameterMap, parameterIdToLearn),
                                       pc[t].parameterId, parameterIdToLearn)
            /\ lastCcValue' = Put(lastCcValue, pc[t].parameterId, pc[t].value[1])
       ELSE UNCHANGED <<ccToParameterMap, lastCcValue>>
    /\ Goto(t, "cc_disarm")
    /\ last' = [NoCall EXCEPT !.op = "running", !.a1 = parameterIdToLearn, !.a2 = pc[t].parameterId]
    /\ UNCHANGED <<midiLearnActive, parameterIdToLearn>>
    /\ LearnStepFrame

\* the learn branch's stopMidiLearn(): midiLearnActive.store(false)
midiCcDisarmActive(t) ==
    /\ Continue(t, "cc_disarm")
    /\ midiLearnActive' = FALSE
    /\ Goto(t, "cc_clear")
    /\ Running
    /\ UNCHANGED <<parameterIdToLearn, ccToParameterMap, lastCcValue, mutexOwner>>
    /\ LearnStepFrame

\* the learn branch's stopMidiLearn(): parameterIdToLearn.store(-1); return true
midiCcDisarmId(t) ==
    /\ Continue(t, "cc_clear")
    /\ parameterIdToLearn' = -1
    /\ Release("midiMappingMutex", t)
    /\ Return(t)
    /\ last' = MidiCall(ControlChangeStatus, pc[t].parameterId, pc[t].value[1], TRUE)
    /\ UNCHANGED <<midiLearnActive, ccToParameterMap, lastCcValue>>
    /\ LearnStepFrame

InitLearn == Constructed /\ budget = MaxLearnSteps /\ exported = NothingExported

NextLearn ==
    \/ InitializeOk
    \/ \E t \in Threads :
          \/ \E parameterId \in {filterCutoff, masterVolumeId} :
                startMidiLearnStoreId(t, parameterId)
          \/ startMidiLearnStoreActive(t)
          \/ stopMidiLearnStoreActive(t)
          \/ stopMidiLearnStoreId(t)
          \/ \E data1 \in {20, 21} : midiCcLoadActive(t, data1, 64)
          \/ midiCcLearnMap(t)
          \/ midiCcDisarmActive(t)
          \/ midiCcDisarmId(t)

SpecLearn == InitLearn /\ [][NextLearn]_vars

\* a thread that found learn mode active took the learn branch's locked block
LearnBranchTaken ==
    \E t \in Threads : pc[t].at = "cc_learn" /\ pc'[t].at = "cc_disarm"

\* C37: in every state reached by interleaving startMidiLearn (armed with parameters
\* other than -1), stopMidiLearn and processMidiEvent, learn mode active implies that
\* the armed parameter is not -1, and a Control Change that takes the learn branch maps
\* its CC number to a parameter: it is never consumed without a mapping.
C37_LearnArmingConsistent ==
    /\ [](midiLearnActive => parameterIdToLearn # -1)
    /\ [][LearnBranchTaken => \E t \in Threads :
             /\ pc'[t].at = "cc_disarm"
             /\ HasKey(ccToParameterMap', pc'[t].parameterId)]_vars

-----------------------------------------------------------------------------
(* the mutexes held across calls: the routed Control Change, the automation drain of
   the audio callback and the preset export, one lock scope per step *)

\* a plausible slip: setParameter also uses the MIDI tables under their mutex
SetParameterLocksWithMidi(recording, fromAutomation) ==
    (IF recording /\ ~fromAutomation THEN {"automationMutex"} ELSE {})
    \cup {"parameterMutex", "midiMappingMutex"}

\* the mutexes a setParameter call locks: automationMutex for the recorded event,
\* parameterMutex for the cache write
SetParameterLocks(recording, fromAutomation) ==
    (IF recording /\ ~fromAutomation THEN {"automationMutex"} ELSE {})
    \cup {"parameterMutex"}

\* none of the mutexes is locked by any thread
Unlocked(mutexes) == \A m \in mutexes : mutexOwner[m] = "none"

\* the parameter and the value a Control Change is routed to: the mapping, else the
\* hardcoded CCs, else -1
RoutedParameter(ccNumber) ==
    IF HasKey(ccToParameterMap, ccNumber) THEN ccToParameterMap[ccNumber]
    ELSE FallbackParameter(ccNumber)

RoutedValue(ccNumber, ccValue) ==
    IF HasKey(ccToParameterMap, ccNumber) THEN R(ccValue, 127)
    ELSE FallbackValue(ccNumber, R(ccValue, 127))

\* processMidiEvent, case 0xB0 while learn is not active: the lock on midiMappingMutex
\* and the lookup; an unhandled CC returns false and unlocks
ccRouteLock(t, data1, data2) ==
    /\ Enter(t)
    /\ initialized
    /\ ~midiLearnActive
    /\ IF RoutedParameter(data1) # -1
       THEN /\ Acquire("midiMappingMutex", t)
            /\ pc' = [pc EXCEPT ![t] = [Idle EXCEPT !.at = "cc_call", !.parameterId = data1,
                                                    !.value = <<data2, 1>>]]
            /\ Running
       ELSE /\ Unlocked({"midiMappingMutex"})
            /\ UNCHANGED threadVars
            /\ last' = MidiCall(ControlChangeStatus, data1, data2, FALSE)
    /\ UNCHANGED <<lifecycleVars, moduleVars, noteVars, cacheVars, midiVars, autoVars,
                   callbackVars, uiVars, xyVars, clock, fault, exported>>

\* the setParameter call made under midiMappingMutex, lastCcValue for a mapped CC, the
\* return and the unlock
ccRouteCall(t) ==
    /\ Continue(t, "cc_call")
    /\ Unlocked(SetParameterLocks(isRecordingAutomation, FALSE))
    /\ LET data1 == pc[t].parameterId
           data2 == pc[t].value[1]
           mapped == HasKey(ccToParameterMap, data1)
           r == setParameter(Sound, RoutedParameter(data1), RoutedValue(data1, data2), FALSE)
       IN  /\ StoreSound(r.s)
           /\ fault' = IF r.overflow THEN "stack_overflow" ELSE "none"
           /\ lastCcValue' = IF mapped THEN Put(lastCcValue, data1, data2) ELSE lastCcValue
           /\ last' = MidiCall(ControlChangeStatus, data1, data2, IF mapped THEN TRUE ELSE r.ret)
    /\ Release("midiMappingMutex", t)
    /\ Return(t)
    /\ UNCHANGED <<lifecycleVars, noteVars, midiLearnActive, parameterIdToLearn,
                   ccToParameterMap, callbackVars, uiVars, xyVars, clock,
                   isRecordingAutomation, isPlayingAutomation, automationRecordStartTime,
                   automationPlaybackStartTime, automationPlaybackIndices, exported>>

\* processAudio after updateAudioAnalysis: if (isPlayingAutomation.load()) and the lock
\* on automationMutex
audioDrainLock ==
    /\ Continue(AudioThread, "pa_drain")
    /\ IF isPlayingAutomation
       THEN /\ Acquire("automationMutex", AudioThread)
            /\ Goto(AudioThread, "pa_apply")
            /\ Running
       ELSE /\ Return(AudioThread)
            /\ UNCHANGED mutexOwner
            /\ last' = [Called("processAudio", pc[AudioThread].parameterId, 0, 0, TRUE)
                           EXCEPT !.out = "mixed"]
    /\ UNCHANGED <<lifecycleVars, moduleVars, noteVars, cacheVars, midiVars, autoVars,
                   callbackVars, uiVars, xyVars, clock, fault, exported>>

\* some track has a due event at its cursor: the drain will call setParameter
DrainDue ==
    \E paramId \in DOMAIN recordedAutomation :
       LET nextEventIdx == IF HasKey(automationPlaybackIndices, paramId)
                           THEN automationPlaybackIndices[paramId] ELSE 0
           track == recordedAutomation[paramId]
       IN  /\ nextEventIdx < Len(track)
           /\ EventDue(track[nextEventIdx + 1], clock - automationPlaybackStartTime)

\* the loops over the tracks under automationMutex: setParameter(..., true) and the
\* callback for every due event, then the unlock and the return
audioDrainApply ==
    /\ Continue(AudioThread, "pa_apply")
    /\ DrainDue => Unlocked(SetParameterLocks(isRecordingAutomation, TRUE))
    /\ \E order \in Orders(DOMAIN recordedAutomation) :
         LET d == DrainTracks(Sound, order, automationPlaybackIndices,
                              clock - automationPlaybackStartTime, <<>>)
         IN  /\ StoreSound(d.s)
             /\ automationPlaybackIndices' = d.indices
             /\ fault' = IF d.overflow THEN "stack_overflow" ELSE "none"
             /\ last' = [Called("processAudio", pc[AudioThread].parameterId, 0, 0, TRUE)
                            EXCEPT !.out = "mixed", !.applied = d.applied,
                                   !.notified = IF automationParameterChangeCallback
                                                THEN d.applied ELSE <<>>]
    /\ Release("automationMutex", AudioThread)
    /\ Return(AudioThread)
    /\ UNCHANGED <<lifecycleVars, noteVars, midiVars, callbackVars, uiVars, xyVars, clock,
                   isRecordingAutomation, isPlayingAutomation, automationRecordStartTime,
                   automationPlaybackStartTime, exported>>

\* getCurrentPresetDataJson, the first block: the cache copied under parameterMutex
exportParameters(t) ==
    /\ Enter(t)
    /\ Unlocked({"parameterMutex"})
    /\ exported' = [NothingExported EXCEPT !.parameters = parameterCache]
    /\ Goto(t, "ex_mappings")
    /\ Running
    /\ UNCHANGED <<lifecycleVars, moduleVars, noteVars, cacheVars, midiVars, autoVars,
                   callbackVars, uiVars, xyVars, clock, fault, mutexOwner>>

\* getCurrentPresetDataJson, the second block: the CC table copied under
\* midiMappingMutex, then the dump
exportMappings(t) ==
    /\ Continue(t, "ex_mappings")
    /\ Unlocked({"midiMappingMutex"})
    /\ LET doc == Document(DumpSection(exported.parameters, FALSE),
                           DumpSection(ccToParameterMap, TRUE))
       IN  /\ exported' = [doc |-> doc, parameters |-> exported.parameters,
                           midiCcMappings |-> ccToParameterMap]
           /\ last' = [Called("getCurrentPresetDataJson", 0, 0, 0, TRUE) EXCEPT !.doc = doc]
    /\ Return(t)
    /\ UNCHANGED <<lifecycleVars, moduleVars, noteVars, cacheVars, midiVars, autoVars,
                   callbackVars, uiVars, xyVars, clock, fault, mutexOwner>>

InitLocks == Constructed /\ budget = MaxLockSteps /\ exported = NothingExported

NextLocks ==
    \/ InitializeOk
    \/ audioCallbackEnter(1, 2)
    \/ audioCallbackSynth
    \/ audioDrainLock
    \/ audioDrainApply
    \/ \E t \in Threads :
          \/ setParameterEnter(t, filterCutoff, Quarter)
          \/ setParameterRecord(t)
          \/ setParameterApply(t)
          \/ startAutomationRecordingLock(t)
          \/ startAutomationRecordingStoreRecording(t)
          \/ startAutomationRecordingStorePlaying(t)
          \/ startAutomationPlaybackLock(t)
          \/ startAutomationPlaybackStorePlaying(t)
          \/ startAutomationPlaybackStoreRecording(t)
          \/ clearAutomationDataLock(t)
          \/ clearAutomationDataStoreRecording(t)
          \/ clearAutomationDataStorePlaying(t)
          \/ hasAutomationDataLocked(t)
          \/ stopAutomationRecordingStore(t)
          \/ \E data1 \in {7, 20} : ccRouteLock(t, data1, 64)
          \/ ccRouteCall(t)
    \/ \E t \in {"control1"} :
          \/ exportParameters(t)
          \/ exportMappings(t)
          \/ noteOnTrigger(t, 60, 100)
          \/ noteOnTrack(t)
          \/ noteOffErase(t, 60)
          \/ noteOffCheck(t)
          \/ noteOffRelease(t)

SpecLocks == InitLocks /\ [][NextLocks]_vars

AllThreads == Threads \cup {AudioThread}

\* the mutexes a thread has locked
Holds(t) == {m \in Mutexes : mutexOwner[m] = t}

\* the mutexes the next step of a thread locks
Wants(t) ==
    CASE pc[t].at = "sp_record" -> {"automationMutex"}
      [] pc[t].at = "sp_cache" -> {"parameterMutex"}
      [] pc[t].at = "cc_call" -> SetParameterLocks(isRecordingAutomation, FALSE)
      [] pc[t].at = "cc_learn" -> {"midiMappingMutex"}
      [] pc[t].at = "ex_mappings" -> {"midiMappingMutex"}
      [] pc[t].at \in {"on_track", "off_check"} -> {"notesMutex"}
      [] pc[t].at = "pa_drain" -> IF isPlayingAutomation THEN {"automationMutex"} ELSE {}
      [] pc[t].at = "pa_apply" -> IF DrainDue
                                  THEN SetParameterLocks(isRecordingAutomation, TRUE)
                                  ELSE {}
      [] OTHER -> {}

\* t cannot go on before u unlocks
WaitsFor(t, u) == \E m \in Wants(t) : mutexOwner[m] = u

\* a set of threads each of which waits for one of the set (a thread that waits for a
\* mutex it holds itself is such a set)
CyclicWait ==
    \E S \in SUBSET AllThreads \ {{}} : \A t \in S : \E u \in S : WaitsFor(t, u)

\* the pairs (held, locked next) the code nests
NestingOrder ==
    {<<"midiMappingMutex", "automationMutex">>, <<"midiMappingMutex", "parameterMutex">>,
     <<"automationMutex", "parameterMutex">>}

\* C36: no interleaving of the control calls with the audio callback reaches a state
\* in which threads wait for each other's mutexes in a cycle, and a thread that locks a
\* mutex while it holds another does so in one order only: midiMappingMutex before
\* automationMutex before parameterMutex.
C36_NoCyclicWait ==
    /\ ~CyclicWait
    /\ \A t \in AllThreads : \A held \in Holds(t) : \A wanted \in Wants(t) :
          <<held, wanted>> \in NestingOrder

\* the routed Control Change holds midiMappingMutex and the drain holds automationMutex,
\* each about to call setParameter
C36_Witness ==
    /\ pc[AudioThread].at = "pa_apply" /\ DrainDue
    /\ mutexOwner["automationMutex"] = AudioThread
    /\ \E t \in Threads : pc[t].at = "cc_call" /\ mutexOwner["midiMappingMutex"] = t

\* C31: each mutex is held only for its own read/modify/write: in no reachable state
\* does a thread that holds one of the four mutexes stand before a call that locks
\* another of them.
C31_LockDiscipline ==
    \A t \in AllThreads : Holds(t) # {} => Wants(t) = {}

\* C32: the audio callback never blocks: in no reachable state is the next step of
\* processAudio the lock of a mutex that a control thread holds.
C32_AudioNeverBlocks ==
    \A m \in Wants(AudioThread) : mutexOwner[m] \notin Threads

=============================================================================
